---- MODULE Spec2Model ----
(***************************************************************************)
(* A model of the wRPC transport crate (crates/transport/src/lib.rs):      *)
(* the subject algebra, the type-directed subscription planner, the value  *)
(* encoder and its async value tree, the transmitter's walk of that tree,  *)
(* the value decoder, and the client orchestration (invoke / serve).       *)
(*                                                                         *)
(* Data representation.  Every datum is a record with a field k naming its *)
(* constructor, so that values of different shapes can be compared.        *)
(*   Option<X>    : NONE, or the X itself when X is a record with a k      *)
(*                  field; Some(x) wraps sequences.                        *)
(*   Subject      : the sequence of child indices from the root subject;   *)
(*                  the index None (indeterminate) is AnyIndex.            *)
(*   Bytes        : sequences of 0..255.                                   *)
(***************************************************************************)
EXTENDS Integers, Sequences, FiniteSets, TLC

VARIABLES
    \* ---- planner / encoder / transmitter applied to one typed value
    ty,          \* the Type handed to subscribe_async
    val,         \* a well-typed Value of that type
    planned,     \* what subscribe_async(root, ty) returned, or UNSET
    encoded,     \* what val.encode(buf) returned, or UNSET
    published,   \* what transmit_async(root, tx) publishes, or UNSET
    staticOpt,   \* what <Option<A> as Subscribe>::subscribe returned, or UNSET
    encodedDyn,  \* what encode_dynamic_future returned for a future val, or UNSET
    \* ---- one call of invoke_static / invoke_dynamic
    ipc,         \* where the call is: subscribing, racing, errDecoding, done
    api,         \* "invoke_static" or "invoke_dynamic"
    isubs,       \* the three subscribe futures of try_join!
    invoked,     \* Invocation::invoke has been called
    resVal,      \* the result value the callee holds
    errMsg,      \* the error string the callee holds
    resLeft,     \* encoded result bytes not yet published
    errLeft,     \* encoded error bytes not yet published
    results_rx,  \* items delivered on the result subject, not yet taken
    error_rx,    \* items delivered on the error subject, not yet taken
    resClosed,   \* the result stream has ended
    errClosed,   \* the error stream has ended
    tx_fail,     \* the transmission task has signalled failure
    tx_out,      \* what the transmission future returns once awaited
    resBuf,      \* result bytes the decoder holds
    errBuf,      \* error bytes the decoder holds
    resStarted,  \* the results arm has taken its first payload
    resFirst,    \* ... and nothing had arrived on the other arms by then
    errFirst,    \* the error arm fired before any result payload was delivered
    lateResult,  \* a result payload was published after the error arm fired
    outcomes,    \* the outcomes the call has completed with, in order
    \* ---- serve_static / serve_dynamic: the stream of incoming invocations
    spc,         \* where the closure is: waiting, subscribing, receiving
    sapi,        \* "serve_static" or "serve_dynamic"
    ssubs,       \* the two subscribe futures of try_join!
    slog,        \* the steps run for the invocation at hand, in order
    sLeft,       \* encoded parameter bytes the caller has not yet sent
    params_rx,   \* items delivered on the parameter subject, not yet taken
    sClosed,     \* the parameter stream has ended
    params_buf,  \* parameter bytes the decoder holds
    served,      \* the items the served stream has yielded
    \* ---- one record { a: u32, b: future<u32> } sent to a subscribed receiver
    xa,          \* the field a
    xb,          \* the value the future yields
    xready,      \* poll_immediate finds the future ready at encode time
    xsub,        \* the receiver's subscribe_async plan, or UNSET
    xenc,        \* what the sender's encode returned, or UNSET
    xprimary,    \* the primary payload has been published
    xtodo,       \* the publishes transmit_async has still to make
    xlog,        \* every publish made: subject and payload
    chan,        \* per subscribed subject, the chunks delivered and not taken
    xbuf,        \* primary bytes the receiver's decoder holds
    xrec,        \* the record the receiver decoded, or UNSET
    xfutBuf,     \* bytes the receiver's future holds
    xfut,        \* the value the receiver's future resolved to, or UNSET
    xerr,        \* the receiver's errors
    xfutReads,   \* chunks the receiver's future has taken from its subscription
    xdelivered,  \* per subject, the chunks delivered to its subscription so far
    \* ---- one value decoded from a byte stream that ends after its bytes
    capi,        \* "receive_context" (by Type) or "receive" (by static type)
    cty,         \* the type decoded
    cval,        \* the value the sender encodes, or NONE when the peer's bytes are given
    csub,        \* the subscription handed to the decoder
    cenc,        \* what the sender's encode returned, or UNSET
    cLeft,       \* bytes the peer has not yet sent
    c_rx,        \* chunks delivered and not yet taken
    cClosed,     \* the byte stream has ended
    cbuf,        \* bytes the decoder holds
    cpc,         \* where the decoder is: idle, decoding, done
    cout,        \* what the decoder returned, or UNSET
    cextra,      \* the bytes that follow the encoded value on the byte stream
    \* ---- one decoded pending stream: its producer task and its consumer
    sv_ty,       \* the element type of the stream, NONE for a unit stream
    sv_items,    \* the items the sender's stream yields
    framesLeft,  \* frames the sender has not yet published
    child_rx,    \* chunks delivered on the stream's child subject, not taken
    childClosed, \* the child subscription's stream has ended
    prodPc,      \* the producer task: reading, sending, returned, aborted
    prodBuf,     \* bytes the producer holds (payload)
    prodItem,    \* the item the producer is sending
    itemsChan,   \* the hand-off channel items_tx -> items_rx
    consumed,    \* the items the consumer has read, in order
    consEnded,   \* the consumer has read the end of the stream
    svDropped,   \* the StreamValue has been dropped
    subHeld,     \* the producer task holds the child subscription
    nDecoded,    \* items the producer has decoded
    nReads,      \* chunks the producer has taken from the child subscription
    readsAtDrop, \* nReads when the StreamValue was dropped
    \* ---- one call of transmit_async on a pending future or a stream
    tnode,       \* the AsyncValue handed to transmit_async
    tsubject,    \* the subject handed to transmit_async
    tpc,         \* where the call is: awaiting, joining, ending, done
    ti,          \* the item index i of the stream arm
    tleft,       \* the items the producer has still to yield
    tmain,       \* the publish on the subject that try_join! still has to make, or UNSET
    tnested,     \* the publishes the nested transmit_async still has to make
    tlog,        \* every publish made, in order
    tused,       \* per item yielded, the value of i when it was taken
    tprodErr,    \* the producer has failed
    tresult,     \* what transmit_async returned: Ok or Err, none before
    \* ---- one reader of one subscription stream
    rd_op,       \* what the reader runs: receive_at_least, or the pending unit future
    rd_n,        \* the n handed to receive_at_least
    rd_prior,    \* the payload handed to receive_at_least
    rd_items,    \* every item the stream yields before it ends
    rd_wire,     \* the items the transport has still to deliver
    rd_rx,       \* the items delivered and not taken (rx / subscriber)
    rd_closed,   \* the stream has ended
    rd_payload,  \* the bytes receive_at_least holds (payload)
    rd_taken,    \* the items taken from the stream, in order
    rd_out,      \* what the reader returned, or UNSET
    \* ---- one compound transmission whose publishes may fail
    ct_api,      \* the call: transmit_async on a tuple node, transmit_static, transmit_tuple_dynamic
    ct_subject,  \* the subject handed to the call
    ct_vals,     \* the elements of the tuple transmitted
    ct_main,     \* the publish of the encoded buffer: none, pending, ok, failed
    ct_st,       \* per nested transmit_async future: none, pending, ok, failed
    ct_todo,     \* per nested transmit_async, the publishes it has still to make
    ct_log,      \* the publishes made
    ct_result,   \* what the call returned: Ok or Err, none before
    \* ---- one call of subscribe_async over a transport whose subscribe may fail
    sp_ty,       \* the type handed to subscribe_async
    sp_pending,  \* the subjects whose transport subscribe has not completed
    sp_live,     \* the subjects with a subscription installed and alive
    sp_installed, \* every subject a subscription was installed on
    sp_failed,   \* the subjects whose transport subscribe failed
    sp_result,   \* what subscribe_async returned, or UNSET
    \* ---- echo: a call whose result stream echoes its parameter stream
    ec_items,    \* the items the caller's parameter stream yields
    ec_pc,       \* the call: racing, returned (results and tx handed back) or failed
    ec_res,      \* the callee has published the primary result payload
    ec_tx,       \* the frames of the parameter stream the transmission has published
    ec_echo,     \* the frames the callee has echoed on the result stream
    ec_read,     \* the items the caller has read from the result stream
    ec_end       \* the caller has read the end of the result stream

planVars == <<ty, val, planned, encoded, published, staticOpt, encodedDyn>>

invVars ==
    <<ipc, api, isubs, invoked, resVal, errMsg, resLeft, errLeft, results_rx,
      error_rx, resClosed, errClosed, tx_fail, tx_out, resBuf, errBuf,
      resStarted, resFirst, errFirst, lateResult, outcomes>>

srvVars ==
    <<spc, sapi, ssubs, slog, sLeft, params_rx, sClosed, params_buf, served>>

xferVars ==
    <<xa, xb, xready, xsub, xenc, xprimary, xtodo, xlog, chan, xbuf, xrec,
      xfutBuf, xfut, xerr, xfutReads, xdelivered>>

codecVars ==
    <<capi, cty, cval, csub, cenc, cLeft, c_rx, cClosed, cbuf, cpc, cout,
      cextra>>

streamVars ==
    <<sv_ty, sv_items, framesLeft, child_rx, childClosed, prodPc, prodBuf,
      prodItem, itemsChan, consumed, consEnded, svDropped, subHeld, nDecoded,
      nReads, readsAtDrop>>

txVars == <<tnode, tsubject, tpc, ti, tleft, tmain, tnested, tlog, tused, tprodErr,
           tresult>>

readVars ==
    <<rd_op, rd_n, rd_prior, rd_items, rd_wire, rd_rx, rd_closed,
      rd_payload, rd_taken, rd_out>>

compoundVars ==
    <<ct_api, ct_subject, ct_vals, ct_main, ct_st, ct_todo, ct_log,
      ct_result>>

subscribeVars ==
    <<sp_ty, sp_pending, sp_live, sp_installed, sp_failed, sp_result>>

echoVars ==
    <<ec_items, ec_pc, ec_res, ec_tx, ec_echo, ec_read, ec_end>>

vars == <<planVars, invVars, srvVars, xferVars, codecVars, streamVars, txVars,
    readVars, compoundVars, subscribeVars, echoVars>>

notPlanVars == <<invVars, srvVars, xferVars, codecVars, streamVars, txVars,
    readVars, compoundVars, subscribeVars, echoVars>>
notInvVars == <<planVars, srvVars, xferVars, codecVars, streamVars, txVars,
    readVars, compoundVars, subscribeVars, echoVars>>
notSrvVars == <<planVars, invVars, xferVars, codecVars, streamVars, txVars,
    readVars, compoundVars, subscribeVars, echoVars>>
notXferVars == <<planVars, invVars, srvVars, codecVars, streamVars, txVars,
    readVars, compoundVars, subscribeVars, echoVars>>
notCodecVars == <<planVars, invVars, srvVars, xferVars, streamVars, txVars,
    readVars, compoundVars, subscribeVars, echoVars>>
notStreamVars == <<planVars, invVars, srvVars, xferVars, codecVars, txVars,
    readVars, compoundVars, subscribeVars, echoVars>>
notTxVars == <<planVars, invVars, srvVars, xferVars, codecVars, streamVars,
    readVars, compoundVars, subscribeVars, echoVars>>
notReadVars == <<planVars, invVars, srvVars, xferVars, codecVars, streamVars,
    txVars, compoundVars, subscribeVars, echoVars>>
notCompoundVars == <<planVars, invVars, srvVars, xferVars, codecVars,
    streamVars, txVars, readVars, subscribeVars, echoVars>>
notSubscribeVars == <<planVars, invVars, srvVars, xferVars, codecVars,
    streamVars, txVars, readVars, compoundVars, echoVars>>
notEchoVars == <<planVars, invVars, srvVars, xferVars, codecVars, streamVars,
    txVars, readVars, compoundVars, subscribeVars>>

NONE == [k |-> "None"]
UNSET == [k |-> "Unset"]

\* The variables of a part of the model that a specification does not exercise.
PlanIdle ==
    /\ ty = NONE /\ val = NONE /\ planned = UNSET
    /\ encoded = UNSET /\ published = UNSET /\ staticOpt = UNSET
    /\ encodedDyn = UNSET

InvokeIdle ==
    /\ ipc = "idle" /\ api = "none" /\ isubs = <<>> /\ invoked = FALSE
    /\ resVal = NONE /\ errMsg = <<>> /\ resLeft = <<>> /\ errLeft = <<>>
    /\ results_rx = <<>> /\ error_rx = <<>> /\ resClosed = FALSE /\ errClosed = FALSE
    /\ tx_fail = FALSE /\ tx_out = "none" /\ resBuf = <<>> /\ errBuf = <<>>
    /\ resStarted = FALSE
    /\ resFirst = FALSE /\ errFirst = FALSE /\ lateResult = FALSE /\ outcomes = <<>>

ServeIdle ==
    /\ spc = "idle" /\ sapi = "none" /\ ssubs = <<>> /\ slog = <<>>
    /\ sLeft = <<>> /\ params_rx = <<>> /\ sClosed = FALSE /\ params_buf = <<>>
    /\ served = <<>>

XferIdle ==
    /\ xa = 0 /\ xb = 0 /\ xready = FALSE /\ xsub = UNSET /\ xenc = UNSET
    /\ xprimary = FALSE /\ xtodo = {} /\ xlog = {} /\ chan = <<>>
    /\ xbuf = <<>> /\ xrec = UNSET /\ xfutBuf = <<>> /\ xfut = UNSET /\ xerr = {}
    /\ xfutReads = 0 /\ xdelivered = <<>>

CodecIdle ==
    /\ capi = "none" /\ cty = NONE /\ cval = NONE /\ csub = NONE /\ cenc = UNSET
    /\ cLeft = <<>> /\ c_rx = <<>> /\ cClosed = FALSE /\ cbuf = <<>>
    /\ cpc = "idle" /\ cout = UNSET /\ cextra = <<>>

StreamIdle ==
    /\ sv_ty = NONE /\ sv_items = <<>> /\ framesLeft = <<>> /\ child_rx = <<>>
    /\ childClosed = FALSE /\ prodPc = "idle" /\ prodBuf = <<>> /\ prodItem = NONE
    /\ itemsChan = <<>> /\ consumed = <<>> /\ consEnded = FALSE
    /\ svDropped = FALSE /\ subHeld = FALSE /\ nDecoded = 0 /\ nReads = 0
    /\ readsAtDrop = 0

TxIdle ==
    /\ tnode = NONE /\ tsubject = <<>> /\ tpc = "idle" /\ ti = 0 /\ tleft = <<>>
    /\ tmain = UNSET /\ tnested = {} /\ tlog = <<>> /\ tused = <<>>
    /\ tprodErr = FALSE /\ tresult = "none"

ReadIdle ==
    /\ rd_op = "none" /\ rd_n = 0 /\ rd_prior = <<>> /\ rd_items = <<>>
    /\ rd_wire = <<>> /\ rd_rx = <<>> /\ rd_closed = FALSE
    /\ rd_payload = <<>> /\ rd_taken = <<>> /\ rd_out = UNSET

CompoundIdle ==
    /\ ct_api = "none" /\ ct_subject = <<>> /\ ct_vals = <<>>
    /\ ct_main = "none" /\ ct_st = <<>> /\ ct_todo = <<>> /\ ct_log = {}
    /\ ct_result = "none"

SubscribeIdle ==
    /\ sp_ty = NONE /\ sp_pending = {} /\ sp_live = {} /\ sp_installed = {}
    /\ sp_failed = {} /\ sp_result = UNSET

EchoIdle ==
    /\ ec_items = <<>> /\ ec_pc = "none" /\ ec_res = FALSE /\ ec_tx = 0
    /\ ec_echo = 0 /\ ec_read = <<>> /\ ec_end = FALSE

\* The variables of every part but the named one are idle.
OthersIdle(part) ==
    /\ part # "plan" => PlanIdle
    /\ part # "invoke" => InvokeIdle
    /\ part # "serve" => ServeIdle
    /\ part # "xfer" => XferIdle
    /\ part # "codec" => CodecIdle
    /\ part # "stream" => StreamIdle
    /\ part # "tx" => TxIdle
    /\ part # "read" => ReadIdle
    /\ part # "compound" => CompoundIdle
    /\ part # "subscribe" => SubscribeIdle
    /\ part # "echo" => EchoIdle

Some(x) == [k |-> "Some", some |-> x]

(***************************************************************************)
(* Subject algebra                                                         *)
(***************************************************************************)
\* The index that Subject::child receives as None.
AnyIndex == -1

\* The root subject of one transmission (a result, error or parameter subject).
Root == <<>>

\* Mutant: every child collapses onto index 0.
child_flat(subject, i) == Append(subject, 0)

\* Subject::child: deterministic and injective, here the free path extension.
child(subject, i) == Append(subject, i)

\* s is p extended by zero or more children.
Under(p, s) == Len(s) >= Len(p) /\ SubSeq(s, 1, Len(p)) = p

(***************************************************************************)
(* Types (wrpc_types::Type)                                                *)
(***************************************************************************)
TBool == [k |-> "Bool"]
TU8 == [k |-> "U8"]
TU32 == [k |-> "U32"]
TU16 == [k |-> "U16"]
TS16 == [k |-> "S16"]
TS32 == [k |-> "S32"]
TChar == [k |-> "Char"]
TFloat32 == [k |-> "Float32"]
TFloat64 == [k |-> "Float64"]
TString == [k |-> "String"]
TEnum == [k |-> "Enum"]
TFlags == [k |-> "Flags"]
TList(t) == [k |-> "List", t |-> t]
TRecord(ts) == [k |-> "Record", ts |-> ts]
TTuple(ts) == [k |-> "Tuple", ts |-> ts]
TVariant(cases) == [k |-> "Variant", cases |-> cases]
TOption(t) == [k |-> "Option", t |-> t]
TResult(ok, err) == [k |-> "Result", ok |-> ok, err |-> err]
TFuture(t) == [k |-> "Future", t |-> t]
TStream(t) == [k |-> "Stream", t |-> t]
TResource(r) == [k |-> "Resource", r |-> r]

ScalarKinds ==
    {"Bool", "U8", "U16", "U32", "U64", "S8", "S16", "S32", "S64",
     "Float32", "Float64", "Char", "String", "Enum", "Flags"}

(***************************************************************************)
(* AsyncSubscription<T>: the subscriber of a leaf is the subject its       *)
(* stream was subscribed on.                                               *)
(***************************************************************************)
SubList(s) == [k |-> "List", nested |-> s]
SubRecord(ss) == [k |-> "Record", subs |-> ss]
SubTuple(ss) == [k |-> "Tuple", subs |-> ss]
SubVariant(ss) == [k |-> "Variant", subs |-> ss]
SubOption(s) == [k |-> "Option", nested |-> s]
SubResult(ok, err) == [k |-> "Result", ok |-> ok, err |-> err]
SubFuture(subscriber, nested) ==
    [k |-> "Future", subscriber |-> subscriber, nested |-> nested]
SubStream(subscriber, nested) ==
    [k |-> "Stream", subscriber |-> subscriber, nested |-> nested]

\* The outcome of a planning call: the Option<AsyncSubscription> it returns and
\* the subjects on which it called Subscriber::subscribe.
Plan(sub, calls) == [sub |-> sub, calls |-> calls]

RECURSIVE subscribe_async(_, _)

\* Mutant: the vector is returned even when no element is async (no pruning).
subscribe_async_iter_unpruned(subject, types) ==
    LET n == Len(types)
        rs == [i \in 1..n |-> subscribe_async(child(subject, i - 1), types[i])]
    IN  Plan(Some([i \in 1..n |-> rs[i].sub]), UNION {rs[i].calls : i \in 1..n})

\* Subscriber::subscribe_async_iter: one planning call per element on
\* child(Some(i)); the full vector (None holes kept) iff any element is Some.
subscribe_async_iter(subject, types) ==
    LET n == Len(types)
        rs == [i \in 1..n |-> subscribe_async(child(subject, i - 1), types[i])]
        subs == [i \in 1..n |-> rs[i].sub]
    IN  Plan(IF \E i \in 1..n : subs[i] # NONE THEN Some(subs) ELSE NONE,
             UNION {rs[i].calls : i \in 1..n})

\* Subscriber::subscribe_async_iter_optional: as above, an absent type (a case
\* without payload) plans nothing.
subscribe_async_iter_optional(subject, types) ==
    LET n == Len(types)
        rs == [i \in 1..n |->
                 IF types[i] = NONE THEN Plan(NONE, {})
                 ELSE subscribe_async(child(subject, i - 1), types[i])]
        subs == [i \in 1..n |-> rs[i].sub]
    IN  Plan(IF \E i \in 1..n : subs[i] # NONE THEN Some(subs) ELSE NONE,
             UNION {rs[i].calls : i \in 1..n})

\* Subscriber::subscribe_async_sized_optional at N = 2 (the only size used:
\* Type::Result), by its match arms.
subscribe_async_sized_optional(subject, types) ==
    CASE types[1] = NONE /\ types[2] = NONE -> Plan(NONE, {})
      [] types[1] # NONE /\ types[2] = NONE ->
            LET r == subscribe_async(child(subject, 0), types[1])
            IN  Plan(IF r.sub # NONE THEN Some(<<r.sub, NONE>>) ELSE NONE, r.calls)
      [] types[1] = NONE /\ types[2] # NONE ->
            LET r == subscribe_async(child(subject, 1), types[2])
            IN  Plan(IF r.sub # NONE THEN Some(<<NONE, r.sub>>) ELSE NONE, r.calls)
      [] OTHER ->
            LET a == subscribe_async(child(subject, 0), types[1])
                b == subscribe_async(child(subject, 1), types[2])
            IN  Plan(IF a.sub # NONE \/ b.sub # NONE
                     THEN Some(<<a.sub, b.sub>>) ELSE NONE,
                     a.calls \cup b.calls)

\* Subscriber::subscribe_async.
subscribe_async(subject, t) ==
    CASE t.k \in ScalarKinds -> Plan(NONE, {})
      [] t.k = "List" ->
            LET r == subscribe_async(child(subject, AnyIndex), t.t)
            IN  Plan(IF r.sub = NONE THEN NONE ELSE SubList(r.sub), r.calls)
      [] t.k = "Record" ->
            LET r == subscribe_async_iter(subject, t.ts)
            IN  Plan(IF r.sub = NONE THEN NONE ELSE SubRecord(r.sub.some), r.calls)
      [] t.k = "Tuple" ->
            LET r == subscribe_async_iter(subject, t.ts)
            IN  Plan(IF r.sub = NONE THEN NONE ELSE SubTuple(r.sub.some), r.calls)
      [] t.k = "Variant" ->
            LET r == subscribe_async_iter_optional(subject, t.cases)
            IN  Plan(IF r.sub = NONE THEN NONE ELSE SubVariant(r.sub.some), r.calls)
      [] t.k = "Option" ->
            LET r == subscribe_async(child(subject, 1), t.t)
            IN  Plan(IF r.sub = NONE THEN NONE ELSE SubOption(r.sub), r.calls)
      [] t.k = "Result" ->
            LET r == subscribe_async_sized_optional(subject, <<t.ok, t.err>>)
            IN  Plan(IF r.sub = NONE THEN NONE
                     ELSE SubResult(r.sub.some[1], r.sub.some[2]), r.calls)
      [] t.k = "Future" /\ t.t = NONE ->
            Plan(SubFuture(subject, NONE), {subject})
      [] t.k = "Future" /\ t.t # NONE ->
            LET r == subscribe_async(child(subject, 0), t.t)
            IN  Plan(SubFuture(subject, r.sub), {subject} \cup r.calls)
      [] t.k = "Stream" /\ t.t = NONE ->
            Plan(SubStream(subject, NONE), {subject})
      [] t.k = "Stream" /\ t.t # NONE ->
            LET r == subscribe_async(child(subject, AnyIndex), t.t)
            IN  Plan(SubStream(subject, r.sub), {subject} \cup r.calls)
      [] t.k = "Resource" /\ t.r = "Pollable" ->
            subscribe_async(subject, TFuture(NONE))
      [] t.k = "Resource" /\ t.r = "InputStream" ->
            subscribe_async(subject, TStream(TU8))
      [] OTHER -> Plan(NONE, {})

\* Subscriber::subscribe_tuple.
subscribe_tuple(subject, types) ==
    LET r == subscribe_async_iter(subject, types)
    IN  Plan(IF r.sub = NONE THEN NONE ELSE SubTuple(r.sub.some), r.calls)

(***************************************************************************)
(* Primitive codec: LEB128                                                 *)
(***************************************************************************)
RECURSIVE Leb128U(_)
\* leb128::write::unsigned: groups of 7 bits, least significant first, the
\* continuation bit set on every byte but the last.
Leb128U(n) ==
    IF n < 128 THEN <<n>> ELSE <<(n % 128) + 128>> \o Leb128U(n \div 128)

\* Mutant: a signed integer is written as its zigzag code.
Leb128S_zigzag(n) == Leb128U(IF n < 0 THEN -2 * n - 1 ELSE 2 * n)

RECURSIVE Leb128S(_)
\* leb128::write::signed: groups of 7 bits, least significant first; the last
\* group is the one whose bit 6 carries the sign of what remains.
Leb128S(n) ==
    IF (n \div 128 = 0 /\ n % 128 < 64) \/ (n \div 128 = -1 /\ n % 128 >= 64)
    THEN <<n % 128>>
    ELSE <<(n % 128) + 128>> \o Leb128S(n \div 128)

RECURSIVE Concat(_)
\* The bytes written to one buffer by consecutive writes.
Concat(bufs) == IF bufs = <<>> THEN <<>> ELSE Head(bufs) \o Concat(Tail(bufs))

(***************************************************************************)
(* Values (enum Value).  A future carries whether poll_immediate finds it  *)
(* ready and the Option<Value> it yields; a stream carries its items.  id  *)
(* names the future or stream object (its position in the value).          *)
(***************************************************************************)
VBool(b) == [k |-> "Bool", b |-> b]
VU8(n) == [k |-> "U8", n |-> n]
VU32(n) == [k |-> "U32", n |-> n]
\* A float is carried as its little-endian IEEE-754 bit pattern.
VU16(n) == [k |-> "U16", n |-> n]
VS16(n) == [k |-> "S16", n |-> n]
VS32(n) == [k |-> "S32", n |-> n]
VChar(n) == [k |-> "Char", n |-> n]
VFloat32(bytes) == [k |-> "Float32", bytes |-> bytes]
VFloat64(bytes) == [k |-> "Float64", bytes |-> bytes]
VString(bytes) == [k |-> "String", bytes |-> bytes]
VEnum(n) == [k |-> "Enum", n |-> n]
VFlags(n) == [k |-> "Flags", n |-> n]
VList(vs) == [k |-> "List", vs |-> vs]
VRecord(vs) == [k |-> "Record", vs |-> vs]
VTuple(vs) == [k |-> "Tuple", vs |-> vs]
VVariant(d, nested) == [k |-> "Variant", discriminant |-> d, nested |-> nested]
VOption(v) == [k |-> "Option", v |-> v]
VResultOk(v) == [k |-> "Result", ok |-> TRUE, v |-> v]
VResultErr(v) == [k |-> "Result", ok |-> FALSE, v |-> v]
VFuture(id, ready, out) == [k |-> "Future", id |-> id, ready |-> ready, out |-> out]
VStream(id, items) == [k |-> "Stream", id |-> id, items |-> items]

(***************************************************************************)
(* AsyncValue                                                              *)
(***************************************************************************)
AList(txs) == [k |-> "List", txs |-> txs]
ARecord(txs) == [k |-> "Record", txs |-> txs]
ATuple(txs) == [k |-> "Tuple", txs |-> txs]
AVariant(d, nested) == [k |-> "Variant", discriminant |-> d, nested |-> nested]
AOption(nested) == [k |-> "Option", nested |-> nested]
AResultOk(nested) == [k |-> "ResultOk", nested |-> nested]
AResultErr(nested) == [k |-> "ResultErr", nested |-> nested]
AFuture(fut) == [k |-> "Future", fut |-> fut]
AStream(str) == [k |-> "Stream", str |-> str]

\* What encode returns: the bytes it wrote and the Option<AsyncValue>.
Encoded(buf, tx) == [buf |-> buf, tx |-> tx]

RECURSIVE encode(_)

\* The element loop shared by Vec<T>, Value::Record, Value::Tuple and
\* encode_sized_iter: elements are written in order, their async parts collected.
encode_elements(vs) ==
    LET rs == [i \in 1..Len(vs) |-> encode(vs[i])]
    IN  [buf |-> Concat([i \in 1..Len(vs) |-> rs[i].buf]),
         txs |-> [i \in 1..Len(vs) |-> rs[i].tx]]

AnySome(txs) == \E i \in 1..Len(txs) : txs[i] # NONE

\* Mutant: a ready future is treated as pending.
encode_future_never_ready(v) == Encoded(<<0>>, AFuture(v))

\* Encode for Value, the Self::Future arm.
encode_future(v) ==
    IF v.ready
    THEN IF v.out # NONE
         THEN LET r == encode(v.out) IN Encoded(<<1>> \o r.buf, r.tx)
         ELSE Encoded(<<1>>, NONE)
    ELSE Encoded(<<0>>, AFuture(v))

\* Mutant: a stream that has no item left is written inline, as ended.
encode_stream_drained(v) ==
    IF v.items = <<>> THEN Encoded(<<1, 0>>, NONE) ELSE Encoded(<<0>>, AStream(v))

\* Encode for Value, the Self::Stream arm.
encode_stream(v) == Encoded(<<0>>, AStream(v))

\* Encode for Value.
encode(v) ==
    CASE v.k = "Bool" -> Encoded(<<IF v.b THEN 1 ELSE 0>>, NONE)
      [] v.k = "U8" -> Encoded(<<v.n>>, NONE)
      [] v.k \in {"U16", "U32", "U64", "Char", "Enum", "Flags"} ->
            Encoded(Leb128U(v.n), NONE)
      [] v.k \in {"S16", "S32", "S64"} -> Encoded(Leb128S(v.n), NONE)
      [] v.k \in {"Float32", "Float64"} -> Encoded(v.bytes, NONE)
      [] v.k = "String" -> Encoded(Leb128U(Len(v.bytes)) \o v.bytes, NONE)
      [] v.k = "List" ->
            LET r == encode_elements(v.vs)
            IN  Encoded(Leb128U(Len(v.vs)) \o r.buf,
                        IF AnySome(r.txs) THEN AList(r.txs) ELSE NONE)
      [] v.k = "Record" ->
            LET r == encode_elements(v.vs)
            IN  Encoded(r.buf, IF AnySome(r.txs) THEN ARecord(r.txs) ELSE NONE)
      [] v.k = "Tuple" ->
            LET r == encode_elements(v.vs)
            IN  Encoded(r.buf, IF AnySome(r.txs) THEN ATuple(r.txs) ELSE NONE)
      [] v.k = "Variant" /\ v.nested = NONE ->
            Encoded(Leb128U(v.discriminant), NONE)
      [] v.k = "Variant" /\ v.nested # NONE ->
            LET r == encode(v.nested)
            IN  Encoded(Leb128U(v.discriminant) \o r.buf,
                        IF r.tx = NONE THEN NONE
                        ELSE AVariant(v.discriminant, r.tx))
      [] v.k = "Option" /\ v.v = NONE -> Encoded(<<0>>, NONE)
      [] v.k = "Option" /\ v.v # NONE ->
            LET r == encode(v.v)
            IN  Encoded(<<1>> \o r.buf, IF r.tx = NONE THEN NONE ELSE AOption(r.tx))
      [] v.k = "Result" /\ v.ok /\ v.v = NONE -> Encoded(<<0>>, NONE)
      [] v.k = "Result" /\ v.ok /\ v.v # NONE ->
            LET r == encode(v.v)
            IN  Encoded(<<0>> \o r.buf, IF r.tx = NONE THEN NONE ELSE AResultOk(r.tx))
      [] v.k = "Result" /\ ~v.ok /\ v.v = NONE -> Encoded(<<1>>, NONE)
      [] v.k = "Result" /\ ~v.ok /\ v.v # NONE ->
            LET r == encode(v.v)
            IN  Encoded(<<1>> \o r.buf, IF r.tx = NONE THEN NONE ELSE AResultErr(r.tx))
      [] v.k = "Future" -> encode_future(v)
      [] v.k = "Stream" -> encode_stream(v)

\* impl Encode for Option<T>, applied to the Option<Value> a future yields.
encode_option(o) ==
    IF o = NONE THEN Encoded(<<0>>, NONE)
    ELSE LET r == encode(o)
         IN  Encoded(<<1>> \o r.buf, IF r.tx = NONE THEN NONE ELSE AOption(r.tx))

\* Encode::encode_dynamic_future: the ready future's Option<Value> is encoded
\* with Encode for Option<T>.
encode_dynamic_future(fut) ==
    IF fut.ready
    THEN LET r == encode_option(fut.out) IN Encoded(<<1>> \o r.buf, r.tx)
    ELSE Encoded(<<0>>, AFuture(fut))

(***************************************************************************)
(* Transmitter::transmit_async, as the payloads it publishes when every    *)
(* future resolves and every publish succeeds.  A publish names the        *)
(* subject, the payload, the future or stream object it comes from (src)   *)
(* and, for a stream, the index of the frame.                              *)
(***************************************************************************)
Pub(subject, payload, src, kind, n) ==
    [subject |-> subject, payload |-> payload, src |-> src, kind |-> kind, n |-> n]

RECURSIVE transmit_async(_, _)

\* The AsyncValue::Future arm: the awaited value is encoded into a fresh buffer
\* and published on subject, its async parts go to child(Some(0)); a future that
\* yields None publishes an empty payload.
transmit_future(subject, fut) ==
    IF fut.out # NONE
    THEN LET r == encode(fut.out)
         IN  {Pub(subject, r.buf, fut.id, "Future", 0)}
             \cup (IF r.tx = NONE THEN {}
                   ELSE transmit_async(child(subject, 0), r.tx))
    ELSE {Pub(subject, <<>>, fut.id, "Future", 0)}

\* The AsyncValue::Stream arm: one frame per item on subject, the async parts of
\* item i on child(Some(i)).child(Some(0)), and the final frame 0.
transmit_stream(subject, str) ==
    LET n == Len(str.items)
        item(j) ==
            IF str.items[j] = NONE
            THEN {Pub(subject, <<1>>, str.id, "Stream", j - 1)}
            ELSE LET r == encode(str.items[j])
                 IN  {Pub(subject, <<1>> \o r.buf, str.id, "Stream", j - 1)}
                     \cup (IF r.tx = NONE THEN {}
                           ELSE transmit_async(child(child(subject, j - 1), 0), r.tx))
    IN  UNION {item(j) : j \in 1..n} \cup {Pub(subject, <<0>>, str.id, "Stream", n)}

\* The List / Record / Tuple arm: element i goes to child(Some(i)).
transmit_elements(subject, txs) ==
    UNION {IF txs[i] = NONE THEN {}
           ELSE transmit_async(child(subject, i - 1), txs[i]) : i \in 1..Len(txs)}

\* Mutant: option::some is transmitted under child(Some(0)).
transmit_option_zero(subject, nested) == transmit_async(child(subject, 0), nested)

\* The AsyncValue::Option arm.
transmit_option(subject, nested) == transmit_async(child(subject, 1), nested)

\* Transmitter::transmit_async.
transmit_async(subject, value) ==
    CASE value.k \in {"List", "Record", "Tuple"} ->
            transmit_elements(subject, value.txs)
      [] value.k = "Variant" ->
            transmit_async(child(subject, value.discriminant), value.nested)
      [] value.k = "Option" -> transmit_option(subject, value.nested)
      [] value.k = "ResultOk" -> transmit_async(child(subject, 0), value.nested)
      [] value.k = "ResultErr" -> transmit_async(child(subject, 1), value.nested)
      [] value.k = "Future" -> transmit_future(subject, value.fut)
      [] value.k = "Stream" -> transmit_stream(subject, value.str)

(***************************************************************************)
(* The static planner: trait Subscribe and its implementations             *)
(***************************************************************************)
RECURSIVE subscribe_static(_, _)

\* impl Subscribe for Option<A>.
subscribe_static_option(subject, a) ==
    LET r == subscribe_static(child(subject, 0), a)
    IN  Plan(IF r.sub = NONE THEN NONE ELSE SubOption(r.sub), r.calls)

\* impl Subscribe for Result<O, E>.
subscribe_static_result(subject, o, e) ==
    LET ok == subscribe_static(child(subject, 0), o)
        err == subscribe_static(child(subject, 1), e)
    IN  Plan(IF ok.sub # NONE \/ err.sub # NONE
             THEN SubResult(ok.sub, err.sub) ELSE NONE,
             ok.calls \cup err.calls)

\* impl Subscribe for (A,), (A, B), (A, B, C), (A, B, C, D).
subscribe_static_tuple(subject, types) ==
    LET n == Len(types)
        rs == [i \in 1..n |-> subscribe_static(child(subject, i - 1), types[i])]
    IN  Plan(IF \E i \in 1..n : rs[i].sub # NONE
             THEN SubTuple([i \in 1..n |-> rs[i].sub]) ELSE NONE,
             UNION {rs[i].calls : i \in 1..n})

\* <T as Subscribe>::subscribe by the static type T.  EncodeSync types plan
\* nothing; a type whose implementation lives with the generated bindings
\* (futures, streams) subscribes at the subject it is handed.
subscribe_static(subject, t) ==
    CASE t.k = "Option" -> subscribe_static_option(subject, t.t)
      [] t.k = "Result" -> subscribe_static_result(subject, t.ok, t.err)
      [] t.k = "Tuple" -> subscribe_static_tuple(subject, t.ts)
      [] t.k \in {"Future", "Stream"} -> subscribe_async(subject, t)
      [] OTHER -> Plan(NONE, {})

(***************************************************************************)
(* Receiving.  A decoder runs over the bytes taken so far from its chunk   *)
(* stream: it returns the value and the unread rest, or an error, or       *)
(* RxPending where the code awaits the next chunk (rx.try_next()).         *)
(***************************************************************************)
RxOk(v, rest) == [k |-> "Ok", v |-> v, rest |-> rest]
RxPending == [k |-> "Pending"]
RxErr(why) == [k |-> "Err", why |-> why]
\* The decoder panicked (an unchecked read past the end of the buffer).
RxPanic(why) == [k |-> "Panic", why |-> why]

\* The bytes of buf after the first n.
Drop(buf, n) == SubSeq(buf, n + 1, Len(buf))

RECURSIVE Leb128Value(_)
\* leb128::read::unsigned over one complete group sequence.
Leb128Value(bytes) ==
    IF Len(bytes) = 1 THEN bytes[1]
    ELSE (bytes[1] % 128) + 128 * Leb128Value(Tail(bytes))

\* A decoded 64-bit integer outside -2^31 .. 2^31 - 1, the integers of the
\* model: bits is the number of bits of its magnitude.  A conversion to a
\* narrower type turns it into that conversion's error.
RxWide(bits, rest) == [k |-> "Wide", bits |-> bits, rest |-> rest]

\* The number of bits of one group of 7.
GroupBits(g) ==
    IF g = 0 THEN 0 ELSE IF g < 2 THEN 1 ELSE IF g < 4 THEN 2 ELSE IF g < 8 THEN 3
    ELSE IF g < 16 THEN 4 ELSE IF g < 32 THEN 5 ELSE IF g < 64 THEN 6 ELSE 7

\* The number of bits of the unsigned integer whose groups of 7 bits are gs,
\* least significant first.
BitLength(gs) ==
    LET used == {i \in 1..Len(gs) : gs[i] # 0}
    IN  IF used = {} THEN 0
        ELSE LET top == CHOOSE i \in used : \A j \in used : j <= i
             IN  7 * (top - 1) + GroupBits(gs[top])

\* The 7-bit groups of a LEB128 byte sequence, and their complements.
Groups(bytes) == [i \in 1..Len(bytes) |-> bytes[i] % 128]
Complement(gs) == [i \in 1..Len(gs) |-> 127 - gs[i]]

\* leb128::read::unsigned over the bytes of one number.
leb128_read_unsigned(bytes, rest) ==
    IF BitLength(Groups(bytes)) > 31
    THEN RxWide(BitLength(Groups(bytes)), rest)
    ELSE RxOk(Leb128Value(bytes), rest)

\* leb128::read::signed over the bytes of one number: the value is sign
\* extended from bit 6 of the last group.
leb128_read_signed(bytes, rest) ==
    IF bytes[Len(bytes)] % 128 < 64
    THEN leb128_read_unsigned(bytes, rest)
    ELSE IF BitLength(Complement(Groups(bytes))) > 31
         THEN RxWide(BitLength(Complement(Groups(bytes))), rest)
         ELSE RxOk(-1 - Leb128Value(Complement(Groups(bytes))), rest)

\* The first byte of buf without the continuation bit, 0 when there is none.
leb128_end(buf) ==
    LET ends == {i \in 1..Len(buf) : buf[i] < 128}
    IN  IF ends = {} THEN 0 ELSE CHOOSE i \in ends : \A j \in ends : i <= j

\* receive_leb128_unsigned: bytes are taken one at a time up to the first one
\* without the continuation bit; more chunks are awaited while there is none.
receive_leb128_unsigned(buf) ==
    IF leb128_end(buf) = 0 THEN RxPending
    ELSE leb128_read_unsigned(SubSeq(buf, 1, leb128_end(buf)),
                              Drop(buf, leb128_end(buf)))

\* receive_leb128_signed.
receive_leb128_signed(buf) ==
    IF leb128_end(buf) = 0 THEN RxPending
    ELSE leb128_read_signed(SubSeq(buf, 1, leb128_end(buf)),
                            Drop(buf, leb128_end(buf)))

\* receive_at_least: awaits chunks until n bytes are buffered.
receive_at_least(buf, n) ==
    IF Len(buf) < n THEN RxPending ELSE RxOk(buf, <<>>)

\* Receive for bool: one byte, true iff it is 1.
receive_bool(buf) ==
    IF receive_at_least(buf, 1).k = "Pending" THEN RxPending
    ELSE RxOk(VBool(buf[1] = 1), Drop(buf, 1))

\* Mutant: the bytes after the one read are dropped.
receive_u8_greedy(buf) ==
    IF receive_at_least(buf, 1).k = "Pending" THEN RxPending
    ELSE RxOk(VU8(buf[1]), <<>>)

\* Receive for u8.
receive_u8(buf) ==
    IF receive_at_least(buf, 1).k = "Pending" THEN RxPending
    ELSE RxOk(VU8(buf[1]), Drop(buf, 1))

\* The conversion u64 -> u32 of a decoded integer.
u32_try_from(r) ==
    IF r.k = "Wide" /\ r.bits > 32
    THEN RxErr("received integer value overflows u32")
    ELSE IF r.k # "Ok" THEN r
    ELSE RxOk(VU32(r.v), r.rest)

\* Receive for u32: LEB128, then the conversion u64 -> u32.
receive_u32(buf) == u32_try_from(receive_leb128_unsigned(buf))

\* Mutant: the conversion u64 -> u16 keeps the low 16 bits.
u16_try_from_wrapping(r) ==
    IF r.k = "Wide" THEN RxOk(VU16(0), r.rest)
    ELSE IF r.k # "Ok" THEN r
    ELSE RxOk(VU16(r.v % 65536), r.rest)

\* The conversion u64 -> u16 of a decoded integer.
u16_try_from(r) ==
    IF r.k = "Wide" THEN RxErr("received integer value overflows u16")
    ELSE IF r.k # "Ok" THEN r
    ELSE IF r.v >= 65536 THEN RxErr("received integer value overflows u16")
    ELSE RxOk(VU16(r.v), r.rest)

\* Receive for u16.
receive_u16(buf) == u16_try_from(receive_leb128_unsigned(buf))

\* The conversion i64 -> i16 of a decoded integer.
i16_try_from(r) ==
    IF r.k = "Wide" THEN RxErr("received integer value overflows s16")
    ELSE IF r.k # "Ok" THEN r
    ELSE IF r.v >= 32768 \/ r.v < -32768
         THEN RxErr("received integer value overflows s16")
         ELSE RxOk(VS16(r.v), r.rest)

\* Receive for i16.
receive_s16(buf) == i16_try_from(receive_leb128_signed(buf))

\* The conversion i64 -> i32 of a decoded integer: the integers of the model
\* are the i32 values.
i32_try_from(r) ==
    IF r.k = "Wide" THEN RxErr("received integer value overflows s32")
    ELSE IF r.k # "Ok" THEN r
    ELSE RxOk(VS32(r.v), r.rest)

\* Receive for i32.
receive_s32(buf) == i32_try_from(receive_leb128_signed(buf))

\* char::from_u32: a Unicode scalar value.
char_from_u32(r) ==
    IF r.k # "Ok" THEN r
    ELSE IF r.v.n > 1114111 \/ (r.v.n >= 55296 /\ r.v.n <= 57343)
         THEN RxErr("invalid char received")
         ELSE RxOk(VChar(r.v.n), r.rest)

\* Receive for char: LEB128, the conversion u64 -> u32, char::from_u32.
receive_char(buf) == char_from_u32(u32_try_from(receive_leb128_unsigned(buf)))

\* String::from_utf8 on the bytes the model draws: ASCII bytes are valid, the
\* byte 255 occurs in no valid UTF-8 text.
from_utf8_ok(bytes) == \A i \in 1..Len(bytes) : bytes[i] < 128

\* Receive for String, once len bytes are buffered: copy_to_slice, from_utf8.
string_from_utf8(p, len) ==
    IF p.k # "Ok" THEN p
    ELSE IF from_utf8_ok(SubSeq(p.v, 1, len))
         THEN RxOk(VString(SubSeq(p.v, 1, len)), Drop(p.v, len))
         ELSE RxErr("string is not valid UTF-8")

\* Receive for String, after the length: receive_at_least(payload, rx, len).
string_body(r) ==
    IF r.k # "Ok" THEN r
    ELSE string_from_utf8(receive_at_least(r.rest, r.v), r.v)

\* Mutant: the whole buffer is taken as the text, length prefix included.
receive_string_unprefixed(buf) == RxOk(VString(buf), <<>>)

\* Receive for String: the length, then that many bytes, then from_utf8.
receive_string(buf) == string_body(receive_leb128_unsigned(buf))

\* A decoded future: either ready with the value decoded inline, or pending on
\* the subscription taken from the tree.
RFutureReady(out) == [k |-> "Future", ready |-> TRUE, out |-> out]
RFuturePending(t, subscriber, nested) ==
    [k |-> "Future", ready |-> FALSE, t |-> t, subscriber |-> subscriber,
     nested |-> nested]

RECURSIVE receive_context(_, _, _)
RECURSIVE receive_elements(_, _, _, _)
\* fields.push(el): the element joins the ones decoded after it.
elements_push(v, rs) ==
    IF rs.k # "Ok" THEN rs ELSE RxOk(<<v>> \o rs.v, rs.rest)

\* Mutant: a failed element ends the loop with the elements decoded before it.
elements_next_partial(types, subs, i, r) ==
    IF r.k = "Err" THEN RxOk(<<>>, <<>>)
    ELSE IF r.k # "Ok" THEN r
    ELSE elements_push(r.v, receive_elements(types, r.rest, subs, i + 1))

\* The loop body after element i has been decoded: `?`, then the next one.
elements_next(types, subs, i, r) ==
    IF r.k # "Ok" THEN r
    ELSE elements_push(r.v, receive_elements(types, r.rest, subs, i + 1))

\* The subscription taken from slot i of a record or tuple subscription.
slot(subs, i) == IF subs = NONE \/ i > Len(subs) THEN NONE ELSE subs[i]

\* The element loop of Value::Record / Value::Tuple and receive_tuple_context:
\* element i is decoded with the subscription taken from slot i.
receive_elements(types, buf, subs, i) ==
    IF i > Len(types) THEN RxOk(<<>>, buf)
    ELSE elements_next(types, subs, i,
                       receive_context(types[i], buf, slot(subs, i)))

\* A future whose value was decoded inline.
future_ready(r) == IF r.k # "Ok" THEN r ELSE RxOk(RFutureReady(r.v), r.rest)

\* ReceiveContext<Type> for Value, the Type::Future arm.
receive_future(t, buf, sub) ==
    IF sub = NONE \/ sub.k # "Future"
    THEN RxErr("future subscription type mismatch")
    ELSE IF receive_at_least(buf, 1).k = "Pending" THEN RxPending
    ELSE IF buf[1] = 0
         THEN RxOk(RFuturePending(t.t, sub.subscriber, sub.nested), Drop(buf, 1))
    ELSE IF buf[1] = 1
         THEN IF t.t = NONE THEN RxOk(RFutureReady(NONE), Drop(buf, 1))
              ELSE future_ready(receive_context(t.t, Drop(buf, 1), sub.nested))
    ELSE RxErr("invalid future variant")

\* try_unwrap_record / try_unwrap_tuple / try_unwrap_variant on the Option<AsyncSubscription>.
unwrap_slots(sub) == IF sub = NONE THEN NONE ELSE sub.subs

\* Mutant: 4 buffered bytes are awaited.
receive_f32_four(buf) ==
    IF receive_at_least(buf, 4).k = "Pending" THEN RxPending
    ELSE RxOk(VFloat32(SubSeq(buf, 1, 4)), Drop(buf, 4))

\* Receive for f32: 8 buffered bytes are awaited, 4 are read.
receive_f32(buf) ==
    IF receive_at_least(buf, 8).k = "Pending" THEN RxPending
    ELSE RxOk(VFloat32(SubSeq(buf, 1, 4)), Drop(buf, 4))

\* Receive for f64: 8 buffered bytes are awaited, 8 are read.
receive_f64(buf) ==
    IF receive_at_least(buf, 8).k = "Pending" THEN RxPending
    ELSE RxOk(VFloat64(SubSeq(buf, 1, 8)), Drop(buf, 8))

\* The conversion u64 -> u32 of a decoded length or discriminant.
header_try_from(r) ==
    IF r.k = "Wide" /\ r.bits > 32 THEN RxErr("does not fit in u32") ELSE r

\* receive_discriminant.
receive_discriminant(buf) == header_try_from(receive_leb128_unsigned(buf))

\* receive_list_header.
receive_list_header(buf) == header_try_from(receive_leb128_unsigned(buf))

\* The Value constructor applied to what a nested decoder returned.
wrapped(kind, r) ==
    IF r.k # "Ok" THEN r
    ELSE RxOk(CASE kind = "Enum" -> VEnum(r.v)
                [] kind = "Flags" -> VFlags(r.v)
                [] kind = "List" -> VList(r.v)
                [] kind = "Option" -> VOption(r.v)
                [] kind = "ResultOk" -> VResultOk(r.v)
                [] kind = "ResultErr" -> VResultErr(r.v),
              r.rest)

\* receive_list_context after the header r: r.v elements of type t.
list_elements(t, r) ==
    IF r.k # "Ok" THEN r
    ELSE wrapped("List", receive_elements([i \in 1..r.v |-> t], r.rest, NONE, 1))

\* AsyncSubscriptionDemux::select and DemuxStream::poll_next.
Unreachable == RxPanic("entered unreachable code")

\* Mutant: a demultiplexer is built around the subscription.
demux_built(sub) == RxOk(sub, <<>>)

\* TryFrom<AsyncSubscription<T>> for AsyncSubscriptionDemux<T>: every arm
\* bails, with a message chosen by the kind of the node it is handed.
demux(sub) ==
    IF sub.k = "List" THEN RxErr("demultiplexing lists not supported yet")
    ELSE IF sub.k = "Stream" THEN RxErr("demultiplexing streams not supported yet")
    ELSE RxErr("subscription type mismatch, only lists and streams can be demultiplexed")

\* ReceiveContext::receive_list_context: try_unwrap_list demultiplexes the
\* subscription of the element, before the header is read.
\* receive_list_context holding the result d of try_unwrap_list: `?` on an
\* error, sub.select(i) for every element otherwise.
list_demuxed(t, d, r) ==
    IF d.k = "Err" THEN d
    ELSE IF r.k = "Ok" /\ r.v > 0 THEN Unreachable
    ELSE list_elements(t, r)

receive_list_context(t, buf, sub) ==
    IF sub # NONE
    THEN IF sub.k = "List"
         THEN list_demuxed(t, demux(sub.nested), receive_list_header(buf))
         ELSE RxErr("list subscription type mismatch")
    ELSE list_elements(t, receive_list_header(buf))

\* Self::Variant around the decoded payload of case d.
variant_value(d, r) == IF r.k # "Ok" THEN r ELSE RxOk(VVariant(d, r.v), r.rest)

\* Mutant: the payload of every case is decoded with the subscription of
\* the first case.
variant_case_first_slot(t, sub, r) ==
    IF r.k # "Ok" THEN r
    ELSE IF r.v >= Len(t.cases) THEN RxErr("variant discriminant is unknown")
    ELSE IF sub # NONE /\ sub.k # "Variant"
         THEN RxErr("variant subscription type mismatch")
    ELSE IF t.cases[r.v + 1] = NONE THEN RxOk(VVariant(r.v, NONE), r.rest)
    ELSE variant_value(r.v, receive_context(t.cases[r.v + 1], r.rest,
                                            slot(unwrap_slots(sub), 1)))

\* ReceiveContext<Type> for Value, the Type::Variant arm after the
\* discriminant r.
variant_case(t, sub, r) ==
    IF r.k # "Ok" THEN r
    ELSE IF r.v >= Len(t.cases) THEN RxErr("variant discriminant is unknown")
    ELSE IF sub # NONE /\ sub.k # "Variant"
         THEN RxErr("variant subscription type mismatch")
    ELSE IF t.cases[r.v + 1] = NONE THEN RxOk(VVariant(r.v, NONE), r.rest)
    ELSE variant_value(r.v, receive_context(t.cases[r.v + 1], r.rest,
                                            slot(unwrap_slots(sub), r.v + 1)))

\* ReceiveContext<Type> for Value, the Type::Option arm.
receive_option(t, buf, sub) ==
    IF receive_at_least(buf, 1).k = "Pending" THEN RxPending
    ELSE IF buf[1] = 0 THEN RxOk(VOption(NONE), Drop(buf, 1))
    ELSE IF buf[1] = 1
         THEN IF sub # NONE /\ sub.k # "Option"
              THEN RxErr("option subscription type mismatch")
              ELSE wrapped("Option",
                           receive_context(t.t, Drop(buf, 1),
                                           IF sub = NONE THEN NONE ELSE sub.nested))
    ELSE RxErr("invalid option variant")

\* ReceiveContext<Type> for Value, the Type::Result arm.
receive_result(t, buf, sub) ==
    IF sub # NONE /\ sub.k # "Result" THEN RxErr("result subscription type mismatch")
    ELSE IF receive_at_least(buf, 1).k = "Pending" THEN RxPending
    ELSE IF buf[1] = 0
         THEN IF t.ok = NONE THEN RxOk(VResultOk(NONE), Drop(buf, 1))
              ELSE wrapped("ResultOk",
                           receive_context(t.ok, Drop(buf, 1),
                                           IF sub = NONE THEN NONE ELSE sub.ok))
    ELSE IF buf[1] = 1
         THEN IF t.err = NONE THEN RxOk(VResultErr(NONE), Drop(buf, 1))
              ELSE wrapped("ResultErr",
                           receive_context(t.err, Drop(buf, 1),
                                           IF sub = NONE THEN NONE ELSE sub.err))
    ELSE RxErr("invalid result variant")

\* A decoded stream: either its items decoded inline, or pending on the
\* subscription taken from the tree, with a producer task spawned for it.
RStreamInline(items) == [k |-> "Stream", pending |-> FALSE, items |-> items]
RStreamPending(t, subscriber) ==
    [k |-> "Stream", pending |-> TRUE, t |-> t, subscriber |-> subscriber]

\* stream::iter over the decoded elements.
stream_iter(r) == IF r.k # "Ok" THEN r ELSE RxOk(RStreamInline(r.v), r.rest)

\* stream::iter over the one decoded element.
stream_of_one(r) == IF r.k # "Ok" THEN r ELSE RxOk(RStreamInline(<<r.v>>), r.rest)

\* ReceiveContext<Type> for Value, the Type::Stream arm for any other header
\* byte, after the length r: r.v elements, none for a stream without element
\* type; the decoder returns where the elements end.
stream_bulk(t, r) ==
    IF r.k # "Ok" THEN r
    ELSE IF t.t = NONE THEN RxOk(RStreamInline(<<>>), r.rest)
    ELSE stream_iter(receive_elements([i \in 1..r.v |-> t.t], r.rest, NONE, 1))

\* The stream decoders holding the result d of try_unwrap_stream on a nested
\* subscription: `?` on an error; otherwise the header byte is awaited and
\* sub.select(i) is called for the first element, by the spawned producer or
\* by the decoder itself.
stream_demuxed(d, buf) ==
    IF d.k = "Err" THEN d
    ELSE IF receive_at_least(buf, 1).k = "Pending" THEN RxPending
    ELSE Unreachable

\* ReceiveContext<Type> for Value, the Type::Stream arm.  try_unwrap_stream
\* demultiplexes the nested subscription when there is one.
receive_stream(t, buf, sub) ==
    IF sub = NONE \/ sub.k # "Stream"
    THEN RxErr("stream subscription type mismatch")
    ELSE IF sub.nested # NONE THEN stream_demuxed(demux(sub.nested), buf)
    ELSE IF receive_at_least(buf, 1).k = "Pending" THEN RxPending
    ELSE IF buf[1] = 0
         THEN RxOk(RStreamPending(t.t, sub.subscriber), Drop(buf, 1))
    ELSE IF buf[1] = 1
         THEN IF t.t = NONE THEN RxOk(RStreamInline(<<NONE>>), Drop(buf, 1))
              ELSE stream_of_one(receive_context(t.t, Drop(buf, 1), NONE))
    ELSE stream_bulk(t, receive_leb128_unsigned(buf))

\* Receive for Box<dyn Stream>, header byte 1, after the element r: one more
\* byte is awaited and left in the buffer.
static_stream_of_one(r) ==
    IF r.k # "Ok" THEN r
    ELSE IF receive_at_least(r.rest, 1).k = "Pending" THEN RxPending
    ELSE RxOk(RStreamInline(<<r.v>>), r.rest)

\* Receive for Box<dyn Stream>, any other header byte, after the elements r:
\* ensure!(payload.get_u8() == 0) on whatever is buffered.
static_stream_end(r) ==
    IF r.k # "Ok" THEN r
    ELSE IF r.rest = <<>> THEN RxPanic("get_u8 on an empty buffer")
    ELSE IF r.rest[1] # 0 THEN RxErr("Condition failed: payload.get_u8() == 0")
    ELSE RxOk(RStreamInline(r.v), Drop(r.rest, 1))

\* Receive for Box<dyn Stream>, any other header byte, after the length r.
static_stream_bulk(e, r) ==
    IF r.k # "Ok" THEN r
    ELSE static_stream_end(receive_elements([i \in 1..r.v |-> e], r.rest, NONE, 1))

\* Receive for Box<dyn Stream<Item = anyhow::Result<E>>> with E a scalar, whose
\* Receive implementation is the one receive_context calls.
receive_stream_static(e, buf, sub) ==
    IF sub = NONE \/ sub.k # "Stream"
    THEN RxErr("stream subscription type mismatch")
    ELSE IF sub.nested # NONE THEN stream_demuxed(demux(sub.nested), buf)
    ELSE IF receive_at_least(buf, 1).k = "Pending" THEN RxPending
    ELSE IF buf[1] = 0
         THEN RxOk(RStreamPending(e, sub.subscriber), Drop(buf, 1))
    ELSE IF buf[1] = 1
         THEN static_stream_of_one(receive_context(e, Drop(buf, 1), NONE))
    ELSE static_stream_bulk(e, receive_leb128_unsigned(buf))

\* Self::Record(fields) / Self::Tuple(els) around the decoded elements.
composite(kind, r) ==
    IF r.k # "Ok" THEN r
    ELSE RxOk(IF kind = "Record" THEN VRecord(r.v) ELSE VTuple(r.v), r.rest)

\* ReceiveContext<Type> for Value (the signed integers, u16, u64 and char are
\* LEB128 decoders like u32 and are not drawn).
receive_context(t, buf, sub) ==
    CASE t.k = "Bool" -> receive_bool(buf)
      [] t.k = "U8" -> receive_u8(buf)
      [] t.k = "U16" -> receive_u16(buf)
      [] t.k = "U32" -> receive_u32(buf)
      [] t.k = "S16" -> receive_s16(buf)
      [] t.k = "S32" -> receive_s32(buf)
      [] t.k = "Char" -> receive_char(buf)
      [] t.k = "Float32" -> receive_f32(buf)
      [] t.k = "Float64" -> receive_f64(buf)
      [] t.k = "String" -> receive_string(buf)
      [] t.k = "List" -> receive_list_context(t.t, buf, sub)
      [] t.k = "Variant" -> variant_case(t, sub, receive_discriminant(buf))
      [] t.k = "Enum" -> wrapped("Enum", receive_discriminant(buf))
      [] t.k = "Option" -> receive_option(t, buf, sub)
      [] t.k = "Result" -> receive_result(t, buf, sub)
      [] t.k = "Flags" -> wrapped("Flags", receive_leb128_unsigned(buf))
      [] t.k = "Stream" -> receive_stream(t, buf, sub)
      [] t.k = "Resource" /\ t.r = "Pollable" ->
            receive_context(TFuture(NONE), buf, sub)
      [] t.k = "Resource" /\ t.r = "InputStream" ->
            receive_context(TStream(TU8), buf, sub)
      [] t.k = "Resource" -> receive_string(buf)
      [] t.k \in {"Record", "Tuple"} ->
            IF sub # NONE /\ sub.k # t.k
            THEN RxErr("subscription type mismatch")
            ELSE composite(t.k, receive_elements(t.ts, buf, unwrap_slots(sub), 1))
      [] t.k = "Future" -> receive_future(t, buf, sub)

\* ReceiveContext::receive_tuple_context: the values of a parameter or result
\* list, decoded in order with the slots of the tuple subscription.
receive_tuple_context(types, buf, sub) ==
    IF sub # NONE /\ sub.k # "Tuple"
    THEN RxErr("subscription type mismatch")
    ELSE receive_elements(types, buf, unwrap_slots(sub), 1)

(***************************************************************************)
(* Typed inputs: a bounded universe of types and of well-typed values.     *)
(* A position is the path of a node in the type: the steps below.          *)
(***************************************************************************)
Step(s, i) == [s |-> s, i |-> i]
AtField(pos, i) == Append(pos, Step("field", i))
AtCase(pos, i) == Append(pos, Step("case", i))
AtSome(pos) == Append(pos, Step("some", 0))
AtOk(pos) == Append(pos, Step("ok", 0))
AtErr(pos) == Append(pos, Step("err", 0))
AtElement(pos) == Append(pos, Step("element", 0))
AtPayload(pos) == Append(pos, Step("payload", 0))

\* Nesting depth of the types drawn.
MaxDepth == 2

LeafTypes ==
    {TU32, TString, TFuture(NONE), TStream(NONE),
     TResource("Pollable"), TResource("InputStream"), TResource("OutputStream")}

Wraps(t) ==
    {TList(t), TOption(t), TFuture(t), TStream(t),
     TRecord(<<TU32, t>>), TTuple(<<t, TFuture(NONE)>>),
     TVariant(<<NONE, t>>), TResult(t, NONE), TResult(TU32, t)}

RECURSIVE TypesUpTo(_)
TypesUpTo(d) ==
    IF d = 0 THEN LeafTypes
    ELSE LET S == TypesUpTo(d - 1)
         IN  S \cup UNION {Wraps(t) : t \in S}
               \cup {TRecord(<<>>), TResult(NONE, NONE), TVariant(<<NONE>>)}

Types == TypesUpTo(MaxDepth)

RECURSIVE ValuesOf(_, _)
RECURSIVE ElementValues(_, _, _)
\* The value vectors of a record or tuple: element i drawn at field i - 1.
ElementValues(ts, pos, i) ==
    IF i > Len(ts) THEN {<<>>}
    ELSE {<<v>> \o rest : v \in ValuesOf(ts[i], AtField(pos, i - 1)),
                          rest \in ElementValues(ts, pos, i + 1)}

ValuesOf(t, pos) ==
    CASE t.k = "Bool" -> {VBool(TRUE), VBool(FALSE)}
      [] t.k = "U8" -> {VU8(7)}
      [] t.k = "U32" -> {VU32(300)}
      [] t.k = "U16" -> {VU16(65535)}
      [] t.k = "S16" -> {VS16(-32768)}
      [] t.k = "S32" -> {VS32(-3)}
      [] t.k = "Char" -> {VChar(104)}
      [] t.k = "Float32" -> {VFloat32(<<0, 0, 128, 63>>)}
      [] t.k = "Float64" -> {VFloat64(<<0, 0, 0, 0, 0, 0, 240, 63>>)}
      [] t.k = "String" -> {VString(<<104, 105>>)}
      [] t.k = "Enum" -> {VEnum(1)}
      [] t.k = "Flags" -> {VFlags(5)}
      [] t.k = "List" ->
            LET V == ValuesOf(t.t, AtElement(pos))
            IN  {VList(<<>>)} \cup {VList(<<v>>) : v \in V}
                  \cup {VList(<<v, v>>) : v \in V}
      [] t.k = "Record" -> {VRecord(vs) : vs \in ElementValues(t.ts, pos, 1)}
      [] t.k = "Tuple" -> {VTuple(vs) : vs \in ElementValues(t.ts, pos, 1)}
      [] t.k = "Variant" ->
            UNION {IF t.cases[i] = NONE THEN {VVariant(i - 1, NONE)}
                   ELSE {VVariant(i - 1, v) :
                           v \in ValuesOf(t.cases[i], AtCase(pos, i - 1))}
                   : i \in 1..Len(t.cases)}
      [] t.k = "Option" ->
            {VOption(NONE)} \cup {VOption(v) : v \in ValuesOf(t.t, AtSome(pos))}
      [] t.k = "Result" ->
            (IF t.ok = NONE THEN {VResultOk(NONE)}
             ELSE {VResultOk(v) : v \in ValuesOf(t.ok, AtOk(pos))})
            \cup
            (IF t.err = NONE THEN {VResultErr(NONE)}
             ELSE {VResultErr(v) : v \in ValuesOf(t.err, AtErr(pos))})
      [] t.k = "Future" ->
            {VFuture(pos, r, out) :
                r \in BOOLEAN,
                out \in (IF t.t = NONE THEN {NONE}
                         ELSE ValuesOf(t.t, AtPayload(pos)))}
      [] t.k = "Stream" ->
            IF t.t = NONE
            THEN {VStream(pos, <<>>), VStream(pos, <<NONE>>), VStream(pos, <<NONE, NONE>>)}
            ELSE LET V == ValuesOf(t.t, AtElement(pos))
                 IN  {VStream(pos, <<>>)} \cup {VStream(pos, <<v>>) : v \in V}
                       \cup {VStream(pos, <<v, v>>) : v \in V}
      [] t.k = "Resource" /\ t.r = "Pollable" -> ValuesOf(TFuture(NONE), pos)
      [] t.k = "Resource" /\ t.r = "InputStream" -> ValuesOf(TStream(TU8), pos)
      [] OTHER -> ValuesOf(TString, pos)

(***************************************************************************)
(* The planner, the encoder and the transmitter applied to one typed value *)
(***************************************************************************)
PlanInit ==
    /\ ty \in Types
    /\ val \in ValuesOf(ty, <<>>)
    /\ planned = UNSET
    /\ encoded = UNSET
    /\ published = UNSET
    /\ staticOpt = UNSET
    /\ encodedDyn = UNSET
    /\ OthersIdle("plan")

\* The receiver plans its subscriptions from the type alone.
SubscribeAsync ==
    /\ planned = UNSET
    /\ planned' = subscribe_async(Root, ty)
    /\ UNCHANGED <<ty, val, encoded, published, staticOpt, encodedDyn>>
    /\ UNCHANGED notPlanVars

RECURSIVE HasStaticImpl(_)
\* The types whose Subscribe implementation subscribe_static models.
HasStaticImpl(t) ==
    CASE t.k \in ScalarKinds -> TRUE
      [] t.k \in {"Future", "Stream"} -> TRUE
      [] t.k = "Option" -> HasStaticImpl(t.t)
      [] t.k = "Result" ->
            /\ t.ok # NONE /\ t.err # NONE
            /\ HasStaticImpl(t.ok) /\ HasStaticImpl(t.err)
      [] t.k = "Tuple" -> \A i \in 1..Len(t.ts) : HasStaticImpl(t.ts[i])
      [] OTHER -> FALSE

\* The same type planned as the payload of a static Option<A>.
SubscribeStaticOption ==
    /\ planned # UNSET
    /\ HasStaticImpl(ty)
    /\ staticOpt = UNSET
    /\ staticOpt' = subscribe_static(Root, TOption(ty))
    /\ UNCHANGED <<ty, val, planned, encoded, published, encodedDyn>>
    /\ UNCHANGED notPlanVars

\* The sender encodes the value.
Encode ==
    /\ planned # UNSET
    /\ encoded = UNSET
    /\ encoded' = encode(val)
    /\ UNCHANGED <<ty, val, planned, published, staticOpt, encodedDyn>>
    /\ UNCHANGED notPlanVars

\* The sender walks the async value tree.
TransmitAsync ==
    /\ encoded # UNSET
    /\ published = UNSET
    /\ published' = [k |-> "Published",
                     pubs |-> IF encoded.tx = NONE THEN {}
                              ELSE transmit_async(Root, encoded.tx)]
    /\ UNCHANGED <<ty, val, planned, encoded, staticOpt, encodedDyn>>
    /\ UNCHANGED notPlanVars

\* The sender hands the future to Encode::encode_dynamic_future.
EncodeDynamicFuture ==
    /\ planned # UNSET
    /\ val.k = "Future"
    /\ encodedDyn = UNSET
    /\ encodedDyn' = encode_dynamic_future(val)
    /\ UNCHANGED <<ty, val, planned, encoded, published, staticOpt>>
    /\ UNCHANGED notPlanVars

PlanNext ==
    \/ SubscribeAsync
    \/ SubscribeStaticOption
    \/ Encode
    \/ TransmitAsync
    \/ EncodeDynamicFuture

SpecPlan == PlanInit /\ [][PlanNext]_vars

(***************************************************************************)
(* Properties of the planner, the encoder and the transmitter              *)
(***************************************************************************)
RECURSIVE HasAsync(_)
\* The type has a Future or Stream descendant (the resource aliases included).
HasAsync(t) ==
    CASE t.k \in {"Future", "Stream"} -> TRUE
      [] t.k = "Resource" -> t.r \in {"Pollable", "InputStream"}
      [] t.k \in {"List", "Option"} -> HasAsync(t.t)
      [] t.k \in {"Record", "Tuple"} -> \E i \in 1..Len(t.ts) : HasAsync(t.ts[i])
      [] t.k = "Variant" ->
            \E i \in 1..Len(t.cases) : t.cases[i] # NONE /\ HasAsync(t.cases[i])
      [] t.k = "Result" ->
            \/ t.ok # NONE /\ HasAsync(t.ok)
            \/ t.err # NONE /\ HasAsync(t.err)
      [] OTHER -> FALSE

RECURSIVE SubHasLeaf(_)
\* A subscription node with an async leaf at or below it.
SubHasLeaf(sub) ==
    CASE sub = NONE -> FALSE
      [] sub.k \in {"Future", "Stream"} -> TRUE
      [] sub.k \in {"List", "Option"} -> SubHasLeaf(sub.nested)
      [] sub.k \in {"Record", "Tuple", "Variant"} ->
            \E i \in 1..Len(sub.subs) : SubHasLeaf(sub.subs[i])
      [] sub.k = "Result" -> SubHasLeaf(sub.ok) \/ SubHasLeaf(sub.err)
      [] OTHER -> FALSE

RECURSIVE EveryNodeHasLeaf(_)
\* Every node present in the tree has an async leaf at or below it.
EveryNodeHasLeaf(sub) ==
    \/ sub = NONE
    \/ /\ SubHasLeaf(sub)
       /\ CASE sub.k \in {"Future", "Stream", "List", "Option"} ->
                   EveryNodeHasLeaf(sub.nested)
             [] sub.k \in {"Record", "Tuple", "Variant"} ->
                   \A i \in 1..Len(sub.subs) : EveryNodeHasLeaf(sub.subs[i])
             [] sub.k = "Result" ->
                   EveryNodeHasLeaf(sub.ok) /\ EveryNodeHasLeaf(sub.err)

RECURSIVE HolesWhereSync(_, _)
\* Child by child, the tree has a node exactly where the type has async content.
HolesWhereSync(sub, t) ==
    /\ (sub # NONE) <=> (t # NONE /\ HasAsync(t))
    /\ sub # NONE =>
        CASE t.k \in {"Record", "Tuple"} ->
                /\ sub.k = t.k /\ Len(sub.subs) = Len(t.ts)
                /\ \A i \in 1..Len(t.ts) : HolesWhereSync(sub.subs[i], t.ts[i])
          [] t.k = "Variant" ->
                /\ sub.k = "Variant" /\ Len(sub.subs) = Len(t.cases)
                /\ \A i \in 1..Len(t.cases) : HolesWhereSync(sub.subs[i], t.cases[i])
          [] t.k \in {"List", "Option"} ->
                sub.k = t.k /\ HolesWhereSync(sub.nested, t.t)
          [] t.k = "Result" ->
                /\ sub.k = "Result"
                /\ HolesWhereSync(sub.ok, t.ok) /\ HolesWhereSync(sub.err, t.err)
          [] t.k \in {"Future", "Stream"} ->
                sub.k = t.k /\ HolesWhereSync(sub.nested, t.t)
          [] t.k = "Resource" /\ t.r = "Pollable" -> sub.k = "Future"
          [] t.k = "Resource" /\ t.r = "InputStream" -> sub.k = "Stream"
          [] OTHER -> FALSE

\* C7: subscribe_async returns a node iff the type has a Future or Stream
\* descendant; every node of the tree has an async leaf at or below it, branches
\* without async content are None holes, and a type without async descendants
\* causes no transport subscribe call.
C7_PrunedPlan ==
    planned # UNSET =>
        /\ (planned.sub # NONE) <=> HasAsync(ty)
        /\ EveryNodeHasLeaf(planned.sub)
        /\ HolesWhereSync(planned.sub, ty)
        /\ ~HasAsync(ty) => planned.calls = {}

\* A record with a synchronous first field and an async second field has been
\* planned: the tree holds a hole next to a node.
C7_Witness ==
    /\ ty = TRecord(<<TU32, TOption(TResource("Pollable"))>>)
    /\ planned # UNSET
    /\ planned.sub = SubRecord(<<NONE, SubOption(SubFuture(<<1, 1>>, NONE))>>)

RECURSIVE SubLeaves(_, _)
\* The Future and Stream leaf subscriptions of a tree, each with its position
\* in the type and the subject it was subscribed on.
SubLeaves(sub, pos) ==
    CASE sub = NONE -> {}
      [] sub.k \in {"Record", "Tuple"} ->
            UNION {SubLeaves(sub.subs[i], AtField(pos, i - 1)) : i \in 1..Len(sub.subs)}
      [] sub.k = "Variant" ->
            UNION {SubLeaves(sub.subs[i], AtCase(pos, i - 1)) : i \in 1..Len(sub.subs)}
      [] sub.k = "Option" -> SubLeaves(sub.nested, AtSome(pos))
      [] sub.k = "Result" ->
            SubLeaves(sub.ok, AtOk(pos)) \cup SubLeaves(sub.err, AtErr(pos))
      [] sub.k = "List" -> SubLeaves(sub.nested, AtElement(pos))
      [] sub.k = "Future" ->
            {[pos |-> pos, subject |-> sub.subscriber, kind |-> "Future"]}
              \cup SubLeaves(sub.nested, AtPayload(pos))
      [] sub.k = "Stream" ->
            {[pos |-> pos, subject |-> sub.subscriber, kind |-> "Stream"]}
              \cup SubLeaves(sub.nested, AtElement(pos))

\* The first child index of every subject of a set is i.
AllUnder(subjects, i) == \A s \in subjects : Len(s) > 0 /\ s[1] = i

\* C8: every planner for an option type, the type-directed subscribe_async and
\* the static Subscribe for Option<A>, subscribes the async content of the some
\* payload under child(Some(1)), the index transmit_async publishes
\* AsyncValue::Option under.
C8_OptionUnderOne ==
    /\ staticOpt # UNSET => AllUnder(staticOpt.calls, 1)
    /\ (planned # UNSET /\ ty.k = "Option") => AllUnder(planned.calls, 1)
    /\ (published # UNSET /\ ty.k = "Option") =>
            AllUnder({p.subject : p \in published.pubs}, 1)

RECURSIVE InFutureFragment(_)
\* The types built from record, tuple, variant, option, result and future.
InFutureFragment(t) ==
    CASE t.k \in ScalarKinds -> TRUE
      [] t.k \in {"Record", "Tuple"} ->
            \A i \in 1..Len(t.ts) : InFutureFragment(t.ts[i])
      [] t.k = "Variant" ->
            \A i \in 1..Len(t.cases) :
                t.cases[i] = NONE \/ InFutureFragment(t.cases[i])
      [] t.k = "Option" -> InFutureFragment(t.t)
      [] t.k = "Result" ->
            /\ t.ok = NONE \/ InFutureFragment(t.ok)
            /\ t.err = NONE \/ InFutureFragment(t.err)
      [] t.k = "Future" -> t.t = NONE \/ InFutureFragment(t.t)
      [] OTHER -> FALSE

\* C9: for a type built from record, tuple, variant, option, result and
\* future, every payload transmit_async publishes for a pending future is
\* published on the subject on which subscribe_async installed the leaf
\* subscription of the same position.
C9_PublishedWhereSubscribed ==
    (published # UNSET /\ InFutureFragment(ty)) =>
        \A p \in published.pubs :
            \E l \in SubLeaves(planned.sub, <<>>) :
                l.pos = p.src /\ l.kind = p.kind /\ l.subject = p.subject

RECURSIVE AsyncLeaves(_)
\* The future and stream objects at the leaves of an Option<AsyncValue>, in
\* tree order.
AsyncLeaves(tx) ==
    CASE tx = NONE -> <<>>
      [] tx.k \in {"List", "Record", "Tuple"} ->
            Concat([i \in 1..Len(tx.txs) |-> AsyncLeaves(tx.txs[i])])
      [] tx.k \in {"Variant", "Option", "ResultOk", "ResultErr"} ->
            AsyncLeaves(tx.nested)
      [] tx.k = "Future" -> <<tx.fut.id>>
      [] tx.k = "Stream" -> <<tx.str.id>>

RECURSIVE AsyncNodes(_, _)
\* The futures and streams present in a value outside any other future or
\* stream, in value order; with skipReady, a future that is ready is not
\* counted and the futures and streams of the value it yields are.
AsyncNodes(v, skipReady) ==
    CASE v = NONE -> <<>>
      [] v.k \in {"List", "Record", "Tuple"} ->
            Concat([i \in 1..Len(v.vs) |-> AsyncNodes(v.vs[i], skipReady)])
      [] v.k = "Variant" -> AsyncNodes(v.nested, skipReady)
      [] v.k \in {"Option", "Result"} -> AsyncNodes(v.v, skipReady)
      [] v.k = "Future" ->
            IF skipReady /\ v.ready THEN AsyncNodes(v.out, skipReady) ELSE <<v.id>>
      [] v.k = "Stream" -> <<v.id>>
      [] OTHER -> <<>>

RECURSIVE SameShape(_, _, _, _)
\* The async value tree tx lies inside the subscription tree sub, node for node:
\* equal kinds (an AsyncValue::ResultOk / ResultErr under the ok / err child of a
\* Result node, every element of an AsyncValue::List under the one nested
\* node of a List node) and equal arity.  With skipReady a Future subscription
\* whose future is not the leaf at this position is passed through to its nested
\* subscription.
SameShape(tx, sub, pos, skipReady) ==
    \/ tx = NONE
    \/ /\ sub # NONE
       /\ CASE sub.k \in {"Record", "Tuple"} ->
                   /\ tx.k = sub.k /\ Len(tx.txs) = Len(sub.subs)
                   /\ \A i \in 1..Len(tx.txs) :
                          SameShape(tx.txs[i], sub.subs[i], AtField(pos, i - 1), skipReady)
             [] sub.k = "Variant" ->
                   /\ tx.k = "Variant" /\ tx.discriminant < Len(sub.subs)
                   /\ SameShape(tx.nested, sub.subs[tx.discriminant + 1],
                                AtCase(pos, tx.discriminant), skipReady)
             [] sub.k = "Option" ->
                   /\ tx.k = "Option"
                   /\ SameShape(tx.nested, sub.nested, AtSome(pos), skipReady)
             [] sub.k = "Result" ->
                   \/ /\ tx.k = "ResultOk"
                      /\ SameShape(tx.nested, sub.ok, AtOk(pos), skipReady)
                   \/ /\ tx.k = "ResultErr"
                      /\ SameShape(tx.nested, sub.err, AtErr(pos), skipReady)
             [] sub.k = "List" ->
                   /\ tx.k = "List"
                   /\ \A i \in 1..Len(tx.txs) :
                          SameShape(tx.txs[i], sub.nested, AtElement(pos), skipReady)
             [] sub.k = "Future" ->
                   IF tx.k = "Future" /\ tx.fut.id = pos THEN TRUE
                   ELSE /\ skipReady
                        /\ SameShape(tx, sub.nested, AtPayload(pos), skipReady)
             [] sub.k = "Stream" -> tx.k = "Stream" /\ tx.str.id = pos

\* C10 as amended: the AsyncValue tree returned by encoding v has the shape of
\* the AsyncSubscription tree planned for T once every Future subscription whose
\* future was ready at encode time is passed through (its value's async tree
\* stands in its place), and its leaves are, in order, the streams and the
\* futures pending at encode time that v holds outside any pending future or
\* stream (arms not taken by v are pruned).
C10_ShapeUpToReadyFutures ==
    (encoded # UNSET /\ planned # UNSET) =>
        /\ SameShape(encoded.tx, planned.sub, <<>>, TRUE)
        /\ AsyncLeaves(encoded.tx) = AsyncNodes(val, TRUE)

\* A future that is ready at encode time and yields a pending future has been
\* encoded: the async value tree is the inner future's leaf alone.
C10_Witness ==
    /\ ty = TFuture(TFuture(TU32))
    /\ val.ready /\ ~val.out.ready
    /\ planned # UNSET /\ encoded # UNSET
    /\ encoded.tx = AFuture(val.out)

\* C10 as stated: identical shapes at every non-leaf, and the leaves in
\* bijection with the Future/Stream nodes of T present in v.
C10_IdenticalShapes ==
    (encoded # UNSET /\ planned # UNSET) =>
        /\ SameShape(encoded.tx, planned.sub, <<>>, FALSE)
        /\ AsyncLeaves(encoded.tx) = AsyncNodes(val, FALSE)

(***************************************************************************)
(* Client::invoke_static / Client::invoke_dynamic: one call, with the      *)
(* callee and the transport as its environment.  The callee holds a result *)
(* and an error string and may publish either, in chunks of any size.      *)
(***************************************************************************)
\* The items of a subscription stream: Ok(bytes) and Err(..).
Chunk(bytes) == [k |-> "Chunk", bytes |-> bytes]
ErrItem == [k |-> "Err"]

\* rx.try_next() on the items delivered so far: the next item, the end of the
\* stream, or nothing yet.
try_next(rx, closed) ==
    IF rx # <<>> THEN Head(rx)
    ELSE IF closed THEN [k |-> "End"] ELSE [k |-> "Pending"]

\* Mutant: try_join! completes as soon as one future has.
try_join_eager(rs) ==
    IF \E i \in 1..Len(rs) : rs[i] = "failed" THEN "failed"
    ELSE IF \E i \in 1..Len(rs) : rs[i] = "ok" THEN "ok" ELSE "pending"

\* try_join!: fails with the first failure, completes when every future has.
try_join(rs) ==
    IF \E i \in 1..Len(rs) : rs[i] = "failed" THEN "failed"
    ELSE IF \A i \in 1..Len(rs) : rs[i] = "ok" THEN "ok" ELSE "pending"

\* Mutant: the arms stay armed after the call has completed.
select_armed_forever(pc) == pc \in {"racing", "done"}

\* select!: the arms are polled until the first of them completes.
select_armed(pc) == pc = "racing"

\* The ways a call completes.
Results(v) == [arm |-> "results", k |-> "Results", v |-> v]
ResultList(vs) == [arm |-> "results", k |-> "Results", vs |-> vs]
ErrorString(msg) == [arm |-> "error", k |-> "Error", msg |-> msg]
Failed(arm, why) == [arm |-> arm, k |-> "Failed", why |-> why]

\* The values the callee may hold.
ResultValues == {VU32(5), VU32(300)}
ErrorMessages == {<<104, 105>>, <<255>>}

\* The callee's publishes are in flight once the invocation went out.
InFlight ==
    IF ~invoked THEN FALSE
    ELSE IF outcomes = <<>> THEN TRUE ELSE outcomes[1].arm # "setup"

InvokeInit ==
    /\ OthersIdle("invoke")
    /\ ipc = "subscribing"
    /\ api \in {"invoke_static", "invoke_dynamic"}
    /\ isubs = <<"pending", "pending", "pending">>
    /\ invoked = FALSE
    /\ resVal \in ResultValues
    /\ errMsg \in ErrorMessages
    /\ resLeft = encode(VTuple(<<resVal>>)).buf
    /\ errLeft = encode(VString(errMsg)).buf
    /\ results_rx = <<>> /\ error_rx = <<>>
    /\ resClosed = FALSE /\ errClosed = FALSE /\ tx_fail = FALSE
    /\ tx_out = "none"
    /\ resBuf = <<>> /\ errBuf = <<>>
    /\ resStarted = FALSE /\ resFirst = FALSE /\ errFirst = FALSE
    /\ lateResult = FALSE
    /\ outcomes = <<>>

\* The call completes with outcome o.
Complete(o) == ipc' = "done" /\ outcomes' = Append(outcomes, o)

\* One of the three subscribes of try_join! succeeds: the result subject (1),
\* the nested result subscriptions (2), the error subject (3).
SubscribeOk(i) ==
    /\ ipc = "subscribing"
    /\ isubs[i] = "pending"
    /\ isubs' = [isubs EXCEPT ![i] = "ok"]
    /\ UNCHANGED <<ipc, api, invoked, resVal, errMsg, resLeft, errLeft, results_rx,
                   error_rx, resClosed, errClosed, tx_fail, tx_out, resBuf, errBuf,
                   resStarted, resFirst, errFirst, lateResult, outcomes>>
    /\ UNCHANGED notInvVars

\* One of the three subscribes fails: try_join! returns the error and the call
\* fails through `?`.
SubscribeFail(i) ==
    /\ ipc = "subscribing"
    /\ isubs[i] = "pending"
    /\ isubs' = [isubs EXCEPT ![i] = "failed"]
    /\ Complete(Failed("setup", "failed to subscribe"))
    /\ UNCHANGED <<api, invoked, resVal, errMsg, resLeft, errLeft, results_rx,
                   error_rx, resClosed, errClosed, tx_fail, tx_out, resBuf, errBuf,
                   resStarted, resFirst, errFirst, lateResult>>
    /\ UNCHANGED notInvVars

\* inv.invoke(instance, name, params) after try_join! has returned Ok.
Invoke ==
    /\ ipc = "subscribing"
    /\ try_join(isubs) = "ok"
    /\ invoked' = TRUE
    /\ \/ ipc' = "racing" /\ UNCHANGED outcomes
       \/ Complete(Failed("setup", "failed to invoke function"))
    /\ UNCHANGED <<api, isubs, resVal, errMsg, resLeft, errLeft, results_rx,
                   error_rx, resClosed, errClosed, tx_fail, tx_out, resBuf, errBuf,
                   resStarted, resFirst, errFirst, lateResult>>
    /\ UNCHANGED notInvVars

\* The callee publishes the next n bytes of its result on the result subject.
PublishResult ==
    /\ InFlight /\ ~resClosed /\ resLeft # <<>>
    /\ \E n \in 1..Len(resLeft) :
          /\ results_rx' = Append(results_rx, Chunk(SubSeq(resLeft, 1, n)))
          /\ resLeft' = Drop(resLeft, n)
    /\ lateResult' = (lateResult \/ (errFirst /\ ipc # "racing"))
    /\ UNCHANGED <<ipc, api, isubs, invoked, resVal, errMsg, errLeft, error_rx,
                   resClosed, errClosed, tx_fail, tx_out, resBuf, errBuf, resStarted,
                   resFirst, errFirst, outcomes>>
    /\ UNCHANGED notInvVars

\* The callee publishes the next n bytes of its error string on the error
\* subject.
PublishError ==
    /\ InFlight /\ ~errClosed /\ errLeft # <<>>
    /\ \E n \in 1..Len(errLeft) :
          /\ error_rx' = Append(error_rx, Chunk(SubSeq(errLeft, 1, n)))
          /\ errLeft' = Drop(errLeft, n)
    /\ UNCHANGED <<ipc, api, isubs, invoked, resVal, errMsg, resLeft, results_rx,
                   resClosed, errClosed, tx_fail, tx_out, resBuf, errBuf, resStarted,
                   resFirst, errFirst, lateResult, outcomes>>
    /\ UNCHANGED notInvVars

\* The transport ends the result stream, with an Err item or without.
ResultStreamEnds ==
    /\ InFlight /\ ~resClosed
    /\ resClosed' = TRUE
    /\ \/ results_rx' = Append(results_rx, ErrItem)
       \/ UNCHANGED results_rx
    /\ UNCHANGED <<ipc, api, isubs, invoked, resVal, errMsg, resLeft, errLeft,
                   error_rx, errClosed, tx_fail, tx_out, resBuf, errBuf, resStarted,
                   resFirst, errFirst, lateResult, outcomes>>
    /\ UNCHANGED notInvVars

\* The transport ends the error stream, with an Err item or without.
ErrorStreamEnds ==
    /\ InFlight /\ ~errClosed
    /\ errClosed' = TRUE
    /\ \/ error_rx' = Append(error_rx, ErrItem)
       \/ UNCHANGED error_rx
    /\ UNCHANGED <<ipc, api, isubs, invoked, resVal, errMsg, resLeft, errLeft,
                   results_rx, resClosed, tx_fail, tx_out, resBuf, errBuf, resStarted,
                   resFirst, errFirst, lateResult, outcomes>>
    /\ UNCHANGED notInvVars

\* The transmission failure is signalled: the transmission task has failed,
\* or the signal fires although the task returns Ok.
TransmissionFails ==
    /\ InFlight /\ ~tx_fail
    /\ tx_fail' = TRUE
    /\ tx_out' \in {"Err", "Ok"}
    /\ UNCHANGED <<ipc, api, isubs, invoked, resVal, errMsg, resLeft, errLeft,
                   results_rx, error_rx, resClosed, errClosed, resBuf, errBuf,
                   resStarted, resFirst, errFirst, lateResult, outcomes>>
    /\ UNCHANGED notInvVars

\* The decoded tuple as the Ok of invoke_static.
static_results(r) == IF r.k = "Ok" THEN RxOk(Results(VTuple(r.v)), r.rest) ELSE r

\* The decoded values as the Ok of invoke_dynamic.
dynamic_results(r) == IF r.k = "Ok" THEN RxOk(ResultList(r.v), r.rest) ELSE r

\* T::receive for the static result type (u32,) and receive_tuple_context for
\* the dynamic result types [u32], over the bytes taken so far.
receive_results(a, buf) ==
    IF a = "invoke_static"
    THEN static_results(receive_elements(<<TU32>>, buf, NONE, 1))
    ELSE dynamic_results(receive_tuple_context(<<TU32>>, buf,
                                               subscribe_tuple(Root, <<TU32>>).sub))

\* The results arm once its async block has returned r, or awaits a chunk.
results_returned(r) ==
    CASE r.k = "Ok" -> Complete(r.v)
      [] r.k = "Err" -> Complete(Failed("results", r.why))
      [] r.k = "Pending" -> UNCHANGED <<ipc, outcomes>>

\* The async block of the results arm, handed the next item of results_rx.
results_block(item) ==
    IF item.k = "Chunk"
    THEN /\ resStarted' = TRUE
         /\ resFirst' = IF resStarted THEN resFirst
                        ELSE error_rx = <<>> /\ ~errClosed /\ ~tx_fail
         /\ resBuf' = resBuf \o item.bytes
         /\ results_returned(receive_results(api, resBuf \o item.bytes))
    ELSE /\ Complete(Failed("results", "unexpected end of result stream"))
         /\ UNCHANGED <<resStarted, resFirst, resBuf>>

\* select!, the results arm: the async block takes the next item of results_rx
\* (the first payload, then every chunk the decoder awaits) and completes the
\* call when the decoder returns.
ResultsArm ==
    /\ select_armed(ipc)
    /\ try_next(results_rx, resClosed).k # "Pending"
    /\ results_rx' = IF results_rx # <<>> THEN Tail(results_rx) ELSE results_rx
    /\ results_block(try_next(results_rx, resClosed))
    /\ UNCHANGED <<api, isubs, invoked, resVal, errMsg, resLeft, errLeft, error_rx,
                   resClosed, errClosed, tx_fail, tx_out, errBuf, errFirst, lateResult>>
    /\ UNCHANGED notInvVars

\* bail!(err) once String::receive_sync has returned r, or awaits a chunk.
error_returned(r) ==
    CASE r.k = "Ok" -> Complete(ErrorString(r.v.bytes))
      [] r.k = "Err" -> Complete(Failed("error", r.why))
      [] r.k = "Pending" -> ipc' = "errDecoding" /\ UNCHANGED outcomes

\* The error handler from the item it has been handed: String::receive_sync
\* over the error bytes, then bail!(err).
receive_error(item) ==
    IF item.k = "Chunk"
    THEN /\ errBuf' = errBuf \o item.bytes
         /\ error_returned(receive_string(errBuf \o item.bytes))
    ELSE /\ Complete(Failed("error", "unexpected end of error stream"))
         /\ UNCHANGED errBuf

\* select!, the error arm: error_rx.try_next() (error_rx.next() in
\* invoke_dynamic) yields the first item of the error stream.
ErrorArm ==
    /\ select_armed(ipc)
    /\ try_next(error_rx, errClosed).k # "Pending"
    /\ error_rx' = IF error_rx # <<>> THEN Tail(error_rx) ELSE error_rx
    /\ receive_error(try_next(error_rx, errClosed))
    /\ errFirst' = (~resStarted /\ results_rx = <<>>)
    /\ UNCHANGED <<api, isubs, invoked, resVal, errMsg, resLeft, errLeft, results_rx,
                   resClosed, errClosed, tx_fail, tx_out, resBuf, resStarted, resFirst,
                   lateResult>>
    /\ UNCHANGED notInvVars

\* The error handler awaits the rest of the error string.
ErrorDecode ==
    /\ ipc = "errDecoding"
    /\ try_next(error_rx, errClosed).k # "Pending"
    /\ error_rx' = IF error_rx # <<>> THEN Tail(error_rx) ELSE error_rx
    /\ receive_error(try_next(error_rx, errClosed))
    /\ UNCHANGED <<api, isubs, invoked, resVal, errMsg, resLeft, errLeft, results_rx,
                   resClosed, errClosed, tx_fail, tx_out, resBuf, resStarted, resFirst,
                   errFirst, lateResult>>
    /\ UNCHANGED notInvVars

\* select!, the tx_fail arm: the signal wins the race and the handler awaits
\* the transmission future.
TxFailArm ==
    /\ select_armed(ipc)
    /\ tx_fail
    /\ ipc' = "txAwaiting"
    /\ UNCHANGED <<api, tx_out, isubs, invoked, resVal, errMsg, resLeft, errLeft,
                   results_rx, error_rx, resClosed, errClosed, tx_fail, resBuf,
                   errBuf, resStarted, resFirst, errFirst, lateResult, outcomes>>
    /\ UNCHANGED notInvVars

\* Mutant: a transmission that returns Ok lets the call return the results.
tx_awaited_ok_returns(out, v) ==
    IF out = "Err" THEN Failed("tx_fail", "transmission failed")
    ELSE Results(VTuple(<<v>>))

\* match tx.await: both arms bail.
tx_awaited(out, v) ==
    IF out = "Err" THEN Failed("tx_fail", "transmission failed")
    ELSE Failed("tx_fail", "transmission task desynchronisation occured")

\* The transmission future awaited by the tx_fail handler returns.
TxAwaited ==
    /\ ipc = "txAwaiting"
    /\ Complete(tx_awaited(tx_out, resVal))
    /\ UNCHANGED <<api, tx_out, isubs, invoked, resVal, errMsg, resLeft, errLeft,
                   results_rx, error_rx, resClosed, errClosed, tx_fail, resBuf,
                   errBuf, resStarted, resFirst, errFirst, lateResult>>
    /\ UNCHANGED notInvVars

InvokeNext ==
    \/ \E i \in 1..3 : SubscribeOk(i)
    \/ \E i \in 1..3 : SubscribeFail(i)
    \/ Invoke
    \/ PublishResult
    \/ PublishError
    \/ ResultStreamEnds
    \/ ErrorStreamEnds
    \/ TransmissionFails
    \/ ResultsArm
    \/ ErrorArm
    \/ ErrorDecode
    \/ TxFailArm
    \/ TxAwaited

SpecInvoke == InvokeInit /\ [][InvokeNext]_vars

\* C1: a call of invoke_static / invoke_dynamic completes with exactly one
\* outcome, whatever the interleaving of result payloads, error payloads and the
\* transmission failure signal: once it has resolved on one arm it never
\* resolves on another.
C1_ExactlyOneOutcome ==
    /\ Len(outcomes) <= 1
    /\ (ipc = "done") <=> (Len(outcomes) = 1)

\* The call has returned decoded results while an error payload was waiting on
\* the error subject and the transmission failure had been signalled.
C1_Witness ==
    /\ ipc = "done"
    /\ Len(outcomes) = 1 /\ outcomes[1].k = "Results"
    /\ error_rx # <<>> /\ tx_fail

\* C35: once the transmission-failure signal has won the race the call awaits
\* the transmission future and can only fail: with "transmission failed" when
\* the transmission returned an error and with the desynchronisation error
\* when it returned Ok; no results are returned on this arm, whatever arrives
\* on the result subject meanwhile.
C35_TxFailArmAlwaysFails ==
    /\ [](ipc = "txAwaiting" => tx_fail /\ outcomes = <<>>)
    /\ [][ipc = "txAwaiting" =>
            \/ ipc' = "txAwaiting" /\ outcomes' = <<>>
            \/ /\ ipc' = "done"
               /\ outcomes' =
                    <<Failed("tx_fail",
                             IF tx_out = "Err" THEN "transmission failed"
                             ELSE "transmission task desynchronisation occured")>>]_vars

\* The call has failed with the desynchronisation error although the whole
\* result payload had been delivered on the result subject.
C35_Witness ==
    /\ ipc = "done" /\ tx_out = "Ok"
    /\ outcomes = <<Failed("tx_fail", "transmission task desynchronisation occured")>>
    /\ results_rx # <<>> /\ resLeft = <<>> /\ ~resStarted

\* The call has failed with the transmission's error on the tx_fail arm.
C35_WitnessErr ==
    /\ ipc = "done" /\ tx_out = "Err"
    /\ outcomes = <<Failed("tx_fail", "transmission failed")>>

\* C2: when the callee's length-prefixed UTF-8 error string is delivered on the
\* error subject and the error arm observes it before any payload on the
\* result subject, the call fails with exactly that string, also when a result
\* payload is published afterwards.
C2_ErrorStringWins ==
    (errFirst /\ ipc = "done" /\ from_utf8_ok(errMsg) /\ errLeft = <<>>) =>
        outcomes = <<ErrorString(errMsg)>>

\* The call has failed with the callee's string and a result payload was
\* published after the error arm had fired.
C2_Witness ==
    /\ errFirst /\ lateResult
    /\ ipc = "done"
    /\ outcomes = <<ErrorString(<<104, 105>>)>>
    /\ Len(errBuf) = 3 /\ error_rx = <<>>

\* C3: once the results arm has received the first payload of the result
\* subject, with nothing delivered on the error subject and no transmission
\* failure signalled by then, the call resolves by decoding results: an error
\* payload or a transmission failure arriving while the decoder awaits further
\* result chunks does not change the outcome.
C3_FirstResultPayloadWins ==
    (resFirst /\ ipc = "done") => outcomes[1].arm = "results"

\* C4: Invocation::invoke is called only after the result subscription, the
\* nested result subscriptions and the error subscription have all been
\* established; when one of the three fails the call fails and the invocation
\* is never published.
C4_InvokeAfterSubscribes ==
    /\ invoked => \A i \in 1..3 : isubs[i] = "ok"
    /\ (\E i \in 1..3 : isubs[i] = "failed") =>
          /\ ~invoked
          /\ ipc = "done"
          /\ outcomes = <<Failed("setup", "failed to subscribe")>>

\* The invocation has been published after the three subscribes succeeded.
C4_Witness ==
    /\ invoked /\ ipc = "racing"
    /\ isubs = <<"ok", "ok", "ok">>

(***************************************************************************)
(* Client::serve_static / Client::serve_dynamic: the closure that and_then *)
(* runs for each incoming invocation, one invocation at a time.  The       *)
(* caller and the transport are the environment.                           *)
(***************************************************************************)
\* Invocations served in one run.
MaxInvocations == 2

\* The parameter lists a caller may send, of types [u32].
ParamValues == {<<VU32(5)>>, <<VU32(300)>>}

\* What the served stream yields for one invocation, with the steps that ran.
ServedOk(params, log) == [k |-> "Ok", params |-> params, log |-> log]
ServedList(vs, log) == [k |-> "Ok", vs |-> vs, log |-> log]
ServedErr(why, log) == [k |-> "Err", why |-> why, log |-> log]

ServeInit ==
    /\ OthersIdle("serve")
    /\ spc = "waiting"
    /\ sapi \in {"serve_static", "serve_dynamic"}
    /\ ssubs = <<>> /\ slog = <<>> /\ sLeft = <<>> /\ params_rx = <<>>
    /\ sClosed = FALSE /\ params_buf = <<>>
    /\ served = <<>>

\* The closure returns: the stream yields item and awaits the next invocation.
Yield(item) == served' = Append(served, item) /\ spc' = "waiting"

\* self.serve yields an invocation: its first payload holds the first n bytes
\* of the encoded parameters, the caller sends the rest once accepted.
Incoming ==
    /\ spc = "waiting"
    /\ Len(served) < MaxInvocations
    /\ \E ps \in ParamValues :
          \E n \in 0..Len(encode(VTuple(ps)).buf) :
              /\ params_buf' = SubSeq(encode(VTuple(ps)).buf, 1, n)
              /\ sLeft' = Drop(encode(VTuple(ps)).buf, n)
    /\ spc' = "subscribing"
    /\ ssubs' = <<"pending", "pending">>
    /\ slog' = <<>>
    /\ params_rx' = <<>>
    /\ sClosed' = FALSE
    /\ UNCHANGED <<sapi, served>>
    /\ UNCHANGED notSrvVars

\* One of the two subscribes of try_join! succeeds: the parameter subject (1),
\* the nested parameter subscriptions (2).
ServeSubscribeOk(i) ==
    /\ spc = "subscribing"
    /\ ssubs[i] = "pending"
    /\ ssubs' = [ssubs EXCEPT ![i] = "ok"]
    /\ slog' = Append(slog, IF i = 1 THEN "subscribe" ELSE "subscribe nested")
    /\ UNCHANGED <<spc, sapi, sLeft, params_rx, sClosed, params_buf, served>>
    /\ UNCHANGED notSrvVars

\* One of the two subscribes fails: the closure returns the error through `?`.
ServeSubscribeFail(i) ==
    /\ spc = "subscribing"
    /\ ssubs[i] = "pending"
    /\ ssubs' = [ssubs EXCEPT ![i] = "failed"]
    /\ Yield(ServedErr("failed to subscribe for parameters", slog))
    /\ UNCHANGED <<sapi, slog, sLeft, params_rx, sClosed, params_buf>>
    /\ UNCHANGED notSrvVars

\* accept.accept(rx_subject) after try_join! has returned Ok; it succeeds or
\* the closure returns the error through `?`.
Accept ==
    /\ spc = "subscribing"
    /\ try_join(ssubs) = "ok"
    /\ slog' = Append(slog, "accept")
    /\ \/ spc' = "receiving" /\ UNCHANGED served
       \/ Yield(ServedErr("failed to accept invocation", Append(slog, "accept")))
    /\ UNCHANGED <<sapi, ssubs, sLeft, params_rx, sClosed, params_buf>>
    /\ UNCHANGED notSrvVars

\* The accepted caller sends the next n bytes of its parameters.
PublishParams ==
    /\ spc = "receiving" /\ ~sClosed /\ sLeft # <<>>
    /\ \E n \in 1..Len(sLeft) :
          /\ params_rx' = Append(params_rx, Chunk(SubSeq(sLeft, 1, n)))
          /\ sLeft' = Drop(sLeft, n)
    /\ UNCHANGED <<spc, sapi, ssubs, slog, sClosed, params_buf, served>>
    /\ UNCHANGED notSrvVars

\* The transport ends the parameter stream, with an Err item or without.
ParamStreamEnds ==
    /\ spc = "receiving" /\ ~sClosed
    /\ sClosed' = TRUE
    /\ \/ params_rx' = Append(params_rx, ErrItem)
       \/ UNCHANGED params_rx
    /\ UNCHANGED <<spc, sapi, ssubs, slog, sLeft, params_buf, served>>
    /\ UNCHANGED notSrvVars

\* T::receive for the static parameter type (u32,) and receive_tuple_context
\* for the dynamic parameter types [u32], over the bytes taken so far.
receive_params(a, buf) ==
    IF a = "serve_static"
    THEN composite("Tuple", receive_elements(<<TU32>>, buf, NONE, 1))
    ELSE receive_tuple_context(<<TU32>>, buf, subscribe_tuple(Root, <<TU32>>).sub)

\* The closure once the decoder has returned r, or awaits a chunk.
params_returned(r, log) ==
    CASE r.k = "Ok" ->
            Yield(IF sapi = "serve_static" THEN ServedOk(r.v, log)
                  ELSE ServedList(r.v, log))
      [] r.k = "Err" -> Yield(ServedErr("failed to receive parameters", log))
      [] r.k = "Pending" -> UNCHANGED <<spc, served>>

\* The decoder, awaiting a chunk, is handed the next item of the stream.
params_chunk(item, log) ==
    IF item.k = "Chunk"
    THEN /\ params_buf' = params_buf \o item.bytes
         /\ params_returned(receive_params(sapi, params_buf \o item.bytes), log)
    ELSE /\ Yield(ServedErr("failed to receive parameters", log))
         /\ UNCHANGED params_buf

\* T::receive(payload, &mut rx, nested) / receive_tuple_context: the decoder
\* runs on the bytes it holds and takes a chunk where it needs more.
ReceiveParams ==
    /\ spc = "receiving"
    /\ slog' = IF slog[Len(slog)] = "decode" THEN slog ELSE Append(slog, "decode")
    /\ IF receive_params(sapi, params_buf).k # "Pending"
       THEN /\ params_returned(receive_params(sapi, params_buf), slog')
            /\ UNCHANGED <<params_rx, params_buf>>
       ELSE /\ try_next(params_rx, sClosed).k # "Pending"
            /\ params_rx' = IF params_rx # <<>> THEN Tail(params_rx) ELSE params_rx
            /\ params_chunk(try_next(params_rx, sClosed), slog')
    /\ UNCHANGED <<sapi, ssubs, sLeft, sClosed>>
    /\ UNCHANGED notSrvVars

ServeNext ==
    \/ Incoming
    \/ \E i \in 1..2 : ServeSubscribeOk(i)
    \/ \E i \in 1..2 : ServeSubscribeFail(i)
    \/ Accept
    \/ PublishParams
    \/ ParamStreamEnds
    \/ ReceiveParams

SpecServe == ServeInit /\ [][ServeNext]_vars

\* The steps of one invocation in the order the closure runs them: the two
\* subscribes in either order, then accept, then the decoding.
StepOrders ==
    {<<"subscribe", "subscribe nested", "accept", "decode">>,
     <<"subscribe nested", "subscribe", "accept", "decode">>}

IsPrefix(p, q) == Len(p) <= Len(q) /\ SubSeq(q, 1, Len(p)) = p

InStepOrder(log) == \E o \in StepOrders : IsPrefix(log, o)

\* C5: for each invocation handled by serve_static / serve_dynamic the
\* parameter stream and the nested parameter subscriptions are subscribed
\* first, accept is called only after both subscribes succeeded, the parameters
\* are decoded only after accept succeeded, and a failure at a step yields an
\* error item for that invocation with none of the later steps run.
C5_ServeStepOrder ==
    /\ InStepOrder(slog)
    /\ \A n \in 1..Len(served) :
          /\ InStepOrder(served[n].log)
          /\ served[n].k = "Ok" => served[n].log \in StepOrders
          /\ (served[n].k = "Err"
                /\ served[n].why = "failed to subscribe for parameters") =>
                Len(served[n].log) <= 1 /\ served[n].log # <<"accept">>
          /\ (served[n].k = "Err" /\ served[n].why = "failed to accept invocation") =>
                Len(served[n].log) = 3

\* One invocation was decoded after its steps ran in order, another failed at
\* accept and was never decoded.
C5_Witness ==
    /\ Len(served) = 2
    /\ sapi = "serve_static"
    /\ served[1].k = "Ok" /\ served[1].params = VTuple(<<VU32(300)>>)
    /\ served[2] = ServedErr("failed to accept invocation",
                            <<"subscribe nested", "subscribe", "accept">>)

(***************************************************************************)
(* One value of type record { a: u32, b: future<u32> } sent from an        *)
(* encoder and its transmitter to a receiver that has subscribed with      *)
(* subscribe_async.  The transport delivers each publish to the            *)
(* subscription on its subject, whole or in two chunks; a publish on a     *)
(* subject without subscription is lost.                                   *)
(***************************************************************************)
XType == TRecord(<<TU32, TFuture(TU32)>>)

\* The position of the field b in XType.
XFuturePos == AtField(<<>>, 1)

XValue(a, b, ready) == VRecord(<<VU32(a), VFuture(XFuturePos, ready, VU32(b))>>)

\* The subjects a transmission of XType may touch.
XSubjects == {Root, child(Root, 0), child(Root, 1)}

\* The subjects the receiver holds a subscription on.
XSubscribed == IF xsub = UNSET THEN {} ELSE {Root} \cup xsub.calls

XferInit ==
    /\ OthersIdle("xfer")
    /\ xa \in {5, 300, 70000}
    /\ xb \in {0, 7, 300}
    /\ xready \in BOOLEAN
    /\ xsub = UNSET /\ xenc = UNSET
    /\ xprimary = FALSE /\ xtodo = {} /\ xlog = {}
    /\ chan = [s \in XSubjects |-> <<>>]
    /\ xbuf = <<>> /\ xrec = UNSET /\ xfutBuf = <<>> /\ xfut = UNSET
    /\ xerr = {}
    /\ xfutReads = 0
    /\ xdelivered = [s \in XSubjects |-> 0]

\* The chunk sequences the transport may deliver one payload as.
Deliveries(bytes) ==
    {<<bytes>>} \cup {<<SubSeq(bytes, 1, n), Drop(bytes, n)>> : n \in 1..(Len(bytes) - 1)}

\* Transmitter::transmit(subject, payload) as the transport carries it.
Transmit(subject, bytes) ==
    /\ xlog' = xlog \cup {[subject |-> subject, payload |-> bytes]}
    /\ IF subject \in XSubscribed
       THEN \E d \in Deliveries(bytes) :
               /\ chan' = [chan EXCEPT ![subject] = chan[subject] \o d]
               /\ xdelivered' = [xdelivered EXCEPT ![subject] = @ + Len(d)]
       ELSE UNCHANGED <<chan, xdelivered>>

\* The receiver subscribes: the raw subscription on the root subject and the
\* tree subscribe_async plans for the type.
XSubscribe ==
    /\ xsub = UNSET
    /\ xsub' = subscribe_async(Root, XType)
    /\ UNCHANGED <<xa, xb, xready, xenc, xprimary, xtodo, xlog, chan, xbuf, xrec,
                   xfutBuf, xfut, xerr, xfutReads, xdelivered>>
    /\ UNCHANGED notXferVars

\* The sender encodes the value; the async value tree goes to transmit_async.
XEncode ==
    /\ xsub # UNSET
    /\ xenc = UNSET
    /\ xenc' = encode(XValue(xa, xb, xready))
    /\ xtodo' = IF encode(XValue(xa, xb, xready)).tx = NONE THEN {}
                ELSE transmit_async(Root, encode(XValue(xa, xb, xready)).tx)
    /\ UNCHANGED <<xa, xb, xready, xsub, xprimary, xlog, chan, xbuf, xrec,
                   xfutBuf, xfut, xerr, xfutReads, xdelivered>>
    /\ UNCHANGED notXferVars

\* The sender publishes the primary payload on the root subject.
XPublishPrimary ==
    /\ xenc # UNSET
    /\ ~xprimary
    /\ xprimary' = TRUE
    /\ Transmit(Root, xenc.buf)
    /\ UNCHANGED <<xa, xb, xready, xsub, xenc, xtodo, xbuf, xrec, xfutBuf, xfut,
                   xerr, xfutReads>>
    /\ UNCHANGED notXferVars

\* transmit_async: a future has resolved and its value is published.
XTransmitAsync ==
    /\ \E p \in xtodo :
          /\ xtodo' = xtodo \ {p}
          /\ Transmit(p.subject, p.payload)
    /\ UNCHANGED <<xa, xb, xready, xsub, xenc, xprimary, xbuf, xrec, xfutBuf,
                   xfut, xerr, xfutReads>>
    /\ UNCHANGED notXferVars

\* The receiver's decoder has returned r, or awaits a chunk.
record_returned(r) ==
    CASE r.k = "Ok" -> xrec' = r.v /\ UNCHANGED xerr
      [] r.k = "Err" -> xerr' = xerr \cup {r.why} /\ UNCHANGED xrec
      [] r.k = "Pending" -> UNCHANGED <<xrec, xerr>>

\* The receiver takes the next chunk of the root subject and decodes the
\* record with its subscription tree.
XReceive ==
    /\ xsub # UNSET /\ xrec = UNSET /\ xerr = {}
    /\ chan[Root] # <<>>
    /\ chan' = [chan EXCEPT ![Root] = Tail(chan[Root])]
    /\ xbuf' = xbuf \o Head(chan[Root])
    /\ record_returned(receive_context(XType, xbuf \o Head(chan[Root]), xsub.sub))
    /\ UNCHANGED <<xa, xb, xready, xsub, xenc, xprimary, xtodo, xlog, xfutBuf, xfut,
                   xfutReads, xdelivered>>
    /\ UNCHANGED notXferVars

\* Mutant: the pending future decodes its value from the first chunk alone.
future_poll_one_chunk(t, buf, nested) ==
    IF receive_context(t, buf, nested).k = "Pending"
    THEN RxErr("unexpected end of stream")
    ELSE receive_context(t, buf, nested)

\* The async block of a pending typed future: receive_context over an empty
\* payload with the future's own subscription as rx, here over the bytes of
\* the chunks taken from it so far.
future_poll(t, buf, nested) == receive_context(t, buf, nested)

\* The future of the decoded record has returned r, or awaits a chunk.
future_returned(r) ==
    CASE r.k = "Ok" -> xfut' = r.v /\ UNCHANGED xerr
      [] r.k = "Err" -> xerr' = xerr \cup {r.why} /\ UNCHANGED xfut
      [] r.k = "Pending" -> UNCHANGED <<xfut, xerr>>

\* The receiver awaits the future of the decoded record: a ready one holds its
\* value, a pending one decodes it from the chunks of its own subscription.
XAwaitFuture ==
    /\ xrec # UNSET /\ xfut = UNSET /\ xerr = {}
    /\ IF xrec.vs[2].ready
       THEN /\ xfut' = xrec.vs[2].out
            /\ UNCHANGED <<chan, xfutBuf, xerr, xfutReads>>
       ELSE /\ chan[xrec.vs[2].subscriber] # <<>>
            /\ chan' = [chan EXCEPT ![xrec.vs[2].subscriber] = Tail(@)]
            /\ xfutBuf' = xfutBuf \o Head(chan[xrec.vs[2].subscriber])
            /\ xfutReads' = xfutReads + 1
            /\ future_returned(
                 future_poll(xrec.vs[2].t,
                             xfutBuf \o Head(chan[xrec.vs[2].subscriber]),
                             xrec.vs[2].nested))
    /\ UNCHANGED <<xa, xb, xready, xsub, xenc, xprimary, xtodo, xlog, xbuf, xrec,
                   xdelivered>>
    /\ UNCHANGED notXferVars

XferNext ==
    \/ XSubscribe
    \/ XEncode
    \/ XPublishPrimary
    \/ XTransmitAsync
    \/ XReceive
    \/ XAwaitFuture

SpecXfer == XferInit /\ [][XferNext]_vars

\* Every payload has been published and every delivered chunk taken.
XQuiescent ==
    /\ xprimary /\ xtodo = {}
    /\ \A s \in XSubjects : chan[s] = <<>>

\* C6: for record { a: u32, b: future<u32> } with the future pending at encode
\* time, the primary payload is LEB128(a) followed by the byte 00, the future's
\* value is published as LEB128(b) on the child subject with index 1, and the
\* receiver that subscribed with subscribe_async before the transmission
\* decodes a record whose future resolves to b, whatever the order of the
\* primary publish and the child publish.
C6_PendingFutureRecord ==
    ~xready =>
        /\ xenc # UNSET => xenc.buf = Leb128U(xa) \o <<0>>
        /\ \A p \in xlog :
              \/ p.subject = Root /\ p.payload = Leb128U(xa) \o <<0>>
              \/ p.subject = <<1>> /\ p.payload = Leb128U(xb)
        /\ xerr = {}
        /\ xrec # UNSET =>
              xrec = VRecord(<<VU32(xa), RFuturePending(TU32, <<1>>, NONE)>>)
        /\ xfut # UNSET => xfut = VU32(xb)
        /\ XQuiescent => xfut = VU32(xb)

\* The receiver has decoded a = 300 and its future, pending when the record was
\* encoded, has resolved to b = 300; nothing is left in flight.
C6_Witness ==
    /\ ~xready /\ xa = 300 /\ xb = 300
    /\ xfut = VU32(300)
    /\ xbuf = <<172, 2, 0>> /\ xfutBuf = <<172, 2>>
    /\ XQuiescent

\* What the encoding of a future is to be: byte 1 and the encoding of the
\* value it yields with that value's async parts, or byte 0 and the future.
FutureEncoding(fut) ==
    IF fut.ready
    THEN IF fut.out = NONE THEN Encoded(<<1>>, NONE)
         ELSE Encoded(<<1>> \o encode(fut.out).buf, encode(fut.out).tx)
    ELSE Encoded(<<0>>, AFuture(fut))

\* C19: encoding a future writes byte 1 followed by the encoding of the value
\* it yields when it is ready (nothing more when it yields no value) and
\* returns the async parts of that value; when it is pending it writes byte 0
\* and returns an async node holding the future; this for Encode for Value and
\* for Encode::encode_dynamic_future.
C19_EncodeFuture ==
    val.k = "Future" =>
        /\ encoded # UNSET => encoded = FutureEncoding(val)
        /\ encodedDyn # UNSET => encodedDyn = FutureEncoding(val)

\* C31: encoding a stream writes the single byte 0 and returns an async node
\* holding the stream with every item it has still to yield, whether it has
\* none, one or several: no item is taken from it and neither the inline
\* form (first byte 1) nor the bulk form (first byte 2 or more) is written.
C31_StreamNeverInlined ==
    (val.k = "Stream" /\ encoded # UNSET) =>
        /\ encoded.buf = <<0>>
        /\ encoded.tx = AStream(val)
        /\ encoded.tx.str.items = val.items

\* A stream that has already ended has been encoded.
C31_Witness ==
    /\ val.k = "Stream" /\ encoded # UNSET /\ encoded.buf = <<0>>
    /\ val.items = <<>>

\* C18 as stated: the polled future reads exactly one chunk from its child
\* subscription.
C18_ExactlyOneChunk ==
    (~xready /\ xfut # UNSET) => xfutReads = 1

\* C18: a future whose header byte is 0 decodes lazily: decoding the enclosing
\* record takes nothing from the future's child subscription, and the polled
\* future takes chunks from it, one at a time, until its value is decoded: at
\* least one, and every chunk the payload was delivered in; a future whose
\* header byte is 1 takes none.
C18_LazyFuture ==
    /\ xerr = {}
    /\ xrec = UNSET => xfutReads = 0 /\ xfutBuf = <<>>
    /\ xdelivered[child(Root, 1)] = Len(chan[child(Root, 1)]) + xfutReads
    /\ xready => xfutReads = 0
    /\ (~xready /\ xfut # UNSET) =>
          /\ xfutReads >= 1
          /\ xfutReads = xdelivered[child(Root, 1)]
          /\ xfutBuf = Leb128U(xb)
          /\ xfut = VU32(xb)

\* The future's payload AC 02 was delivered in two chunks before the record was
\* decoded, and the future, polled after it, has taken both.
C18_Witness ==
    /\ ~xready /\ xb = 300 /\ xfut = VU32(300)
    /\ xfutReads = 2 /\ xdelivered[child(Root, 1)] = 2

(***************************************************************************)
(* One value decoded from a byte stream.  Either a sender encodes a value  *)
(* of a type without futures and streams, or a peer sends the bytes of an  *)
(* inline stream (the encoder never writes one).  The transport delivers   *)
(* the bytes in chunks and ends the stream after the last one.             *)
(***************************************************************************)
CodecLeafTypes == {TBool, TU8, TU32, TFloat32, TFloat64, TString, TEnum, TFlags}

CodecWraps(t) ==
    {TList(t), TOption(t), TRecord(<<TU32, t>>), TTuple(<<t, TU8>>),
     TVariant(<<NONE, t>>), TResult(t, NONE), TResult(NONE, t)}

\* The types without Future / Stream descendants that are drawn.
CodecTypes ==
    CodecLeafTypes \cup UNION {CodecWraps(t) : t \in CodecLeafTypes}
      \cup {TU16, TS16, TS32, TChar, TTuple(<<TU8, TS32, TString>>)}

\* The bytes that may follow the value on the byte stream.
Extras == {<<>>, <<42>>, <<1, 2, 3, 4>>}

\* A type with the bytes a peer sends for it.
PeerValue(t, bytes) == [t |-> t, bytes |-> bytes]

\* Numbers at and beyond the bounds of their types, as a peer sends them:
\* 65535 and 65536 for u16; 2^31 - 1 and 2^32 for u32; -32768, 32768 and
\* -32769 for s16; -2^31, 2^31 and -2^31 - 1 for s32; U+10FFFF, U+D800,
\* U+110000 and 2^32 for char; 2^32 as a list length and as a discriminant.
PeerNumbers ==
    {PeerValue(TU16, <<255, 255, 3>>), PeerValue(TU16, <<128, 128, 4>>),
     PeerValue(TU32, <<255, 255, 255, 255, 7>>),
     PeerValue(TU32, <<128, 128, 128, 128, 16>>),
     PeerValue(TS16, <<128, 128, 126>>), PeerValue(TS16, <<128, 128, 2>>),
     PeerValue(TS16, <<255, 255, 125>>),
     PeerValue(TS32, <<128, 128, 128, 128, 120>>),
     PeerValue(TS32, <<128, 128, 128, 128, 8>>),
     PeerValue(TS32, <<255, 255, 255, 255, 119>>),
     PeerValue(TChar, <<255, 255, 67>>), PeerValue(TChar, <<128, 176, 3>>),
     PeerValue(TChar, <<128, 128, 68>>),
     PeerValue(TChar, <<128, 128, 128, 128, 16>>),
     PeerValue(TList(TU8), <<128, 128, 128, 128, 16>>),
     PeerValue(TVariant(<<NONE, TU8>>), <<128, 128, 128, 128, 16>>),
     PeerValue(TEnum, <<128, 128, 128, 128, 16>>)}

\* Compound payloads with a protocol error in one element: a string that is
\* not UTF-8, a string cut short, an invalid char, an integer too wide, an
\* invalid option and result byte, an unknown case.
PeerBroken ==
    {PeerValue(TRecord(<<TU32, TString>>), <<5, 1, 255>>),
     PeerValue(TRecord(<<TU32, TString>>), <<5, 3, 104>>),
     PeerValue(TTuple(<<TU8, TChar, TU8>>), <<7, 128, 176, 3, 9>>),
     PeerValue(TTuple(<<TU8, TU16>>), <<7, 128, 128, 4>>),
     PeerValue(TList(TU16), <<2, 1, 128, 128, 4>>),
     PeerValue(TList(TString), <<2, 1, 104, 1, 255>>),
     PeerValue(TVariant(<<NONE, TString>>), <<1, 1, 255>>),
     PeerValue(TVariant(<<NONE, TString>>), <<2>>),
     PeerValue(TRecord(<<TU8, TOption(TU8)>>), <<7, 2, 9>>),
     PeerValue(TTuple(<<TU8, TResult(TU8, NONE)>>), <<7, 2, 9>>)}

\* The stream types decoded by Type and by static type.
DynStreamTypes == {TStream(TU8), TStream(NONE), TRecord(<<TStream(TU8), TU8>>)}
StaticStreamTypes == {TStream(TU8), TStream(TU32)}

\* The primary payloads a peer may send for a stream: pending, one inline
\* element, two inline elements, with and without terminator and trailing byte.
PeerPayloads ==
    {<<0>>, <<0, 42>>,
     <<1, 7, 0>>, <<1, 7, 0, 42>>, <<1, 7>>, <<1, 0>>, <<1, 0, 42>>,
     <<2, 7, 8, 0>>, <<2, 7, 8, 0, 42>>, <<2, 7, 8>>, <<2, 7, 8, 5>>,
     <<2, 0>>, <<2, 0, 42>>}

\* Variants with a future or a stream in a case, decoded with the
\* subscription tree planned for them from the bytes a sender encodes.
AsyncVariantTypes ==
    {TVariant(<<NONE, TFuture(TU8), TStream(TU8)>>),
     TVariant(<<TFuture(NONE), TU8, TOption(TFuture(TU8))>>)}

\* A type, well-formed bytes of it and a subscription that is absent or a
\* node of another kind.
Mismatch(t, bytes, sub) == [t |-> t, bytes |-> bytes, sub |-> sub]

\* Lists and streams whose element type holds a future or a stream, decoded
\* with the subscription tree planned for them.
DemuxTypes ==
    {TList(TFuture(TU8)), TList(TStream(TU8)), TList(TList(TFuture(NONE))),
     TList(TOption(TFuture(TU8))),
     TStream(TFuture(TU8)), TStream(TStream(NONE)), TStream(TList(TStream(TU8))),
     TStream(TTuple(<<TU8, TFuture(NONE)>>))}

\* The primary payloads sent for them: no element, one element, two elements.
DemuxPayloads == {<<0>>, <<1, 0>>, <<2, 0, 0>>}

Mismatched ==
    {Mismatch(TFuture(TU8), <<1, 5>>, NONE),
     Mismatch(TFuture(TU8), <<0>>, SubStream(Root, NONE)),
     Mismatch(TFuture(NONE), <<1>>, SubOption(SubFuture(Root, NONE))),
     Mismatch(TStream(TU8), <<0>>, NONE),
     Mismatch(TStream(TU8), <<1, 5, 0>>, SubFuture(Root, NONE)),
     Mismatch(TStream(NONE), <<0>>, SubRecord(<<NONE>>)),
     Mismatch(TRecord(<<>>), <<>>, SubTuple(<<>>)),
     Mismatch(TTuple(<<TU8>>), <<7>>, SubRecord(<<NONE>>)),
     Mismatch(TVariant(<<NONE, TU8>>), <<0>>, SubOption(SubFuture(Root, NONE))),
     Mismatch(TVariant(<<NONE, TU8>>), <<1, 5>>, SubFuture(Root, NONE)),
     Mismatch(TOption(TU8), <<1, 5>>, SubFuture(Root, NONE)),
     Mismatch(TOption(TU8), <<0>>, SubFuture(Root, NONE)),
     Mismatch(TResult(TU8, NONE), <<0, 5>>, SubFuture(Root, NONE)),
     Mismatch(TResult(TU8, NONE), <<1>>, SubOption(SubFuture(Root, NONE)))}

CodecInit ==
    /\ OthersIdle("codec")
    /\ \/ /\ capi = "receive_context"
          /\ cty \in CodecTypes
          /\ cval \in ValuesOf(cty, <<>>)
          /\ cenc = UNSET
          /\ cLeft = <<>>
          /\ cextra \in Extras
          /\ csub = subscribe_async(Root, cty).sub
       \/ /\ capi = "receive_context"
          /\ cty \in DynStreamTypes
          /\ cval = NONE
          /\ \E bytes \in PeerPayloads : cenc = Encoded(bytes, NONE) /\ cLeft = bytes
          /\ cextra = <<>>
          /\ csub = subscribe_async(Root, cty).sub
       \/ /\ capi = "receive"
          /\ cty \in StaticStreamTypes
          /\ cval = NONE
          /\ \E bytes \in PeerPayloads : cenc = Encoded(bytes, NONE) /\ cLeft = bytes
          /\ cextra = <<>>
          /\ csub = subscribe_async(Root, cty).sub
       \/ /\ capi = "receive_context"
          /\ cval = NONE
          /\ \E e \in PeerNumbers \cup PeerBroken :
                cty = e.t /\ cenc = Encoded(e.bytes, NONE) /\ cLeft = e.bytes
          /\ cextra = <<>>
          /\ csub = NONE
       \/ /\ capi = "receive_context"
          /\ cval = NONE
          /\ cty = TRecord(<<TU8, TU8>>)
          /\ cenc = Encoded(<<7, 9>>, NONE) /\ cLeft = <<7, 9>>
          /\ cextra = <<>>
          /\ csub = SubTuple(<<NONE, NONE>>)
       \/ /\ capi = "receive_context"
          /\ cval = NONE
          /\ cty \in AsyncVariantTypes
          /\ \E v \in ValuesOf(cty, <<>>) : cenc = encode(v) /\ cLeft = encode(v).buf
          /\ cextra = <<>>
          /\ csub = subscribe_async(Root, cty).sub
       \/ /\ capi = "receive_context"
          /\ cval = NONE
          /\ \E e \in Mismatched :
                /\ cty = e.t /\ csub = e.sub
                /\ cenc = Encoded(e.bytes, NONE) /\ cLeft = e.bytes
          /\ cextra = <<>>
       \/ /\ capi = "receive_context"
          /\ cval = NONE
          /\ cty \in DemuxTypes
          /\ \E bytes \in DemuxPayloads : cenc = Encoded(bytes, NONE) /\ cLeft = bytes
          /\ cextra = <<>>
          /\ csub = subscribe_async(Root, cty).sub
    /\ c_rx = <<>> /\ cClosed = FALSE /\ cbuf = <<>>
    /\ cpc = "idle" /\ cout = UNSET

\* The sender encodes the value.
CEncode ==
    /\ cenc = UNSET
    /\ cenc' = encode(cval)
    /\ cLeft' = encode(cval).buf \o cextra
    /\ UNCHANGED <<capi, cty, cval, csub, c_rx, cClosed, cbuf, cpc, cout, cextra>>
    /\ UNCHANGED notCodecVars

\* The sizes of the next chunk the transport may deliver.
ChunkSizes(bytes) == {n \in {1, 3, Len(bytes)} : n <= Len(bytes)}

\* The transport delivers the next chunk.
CPublish ==
    /\ cenc # UNSET /\ cLeft # <<>>
    /\ \E n \in ChunkSizes(cLeft) :
          /\ c_rx' = Append(c_rx, Chunk(SubSeq(cLeft, 1, n)))
          /\ cLeft' = Drop(cLeft, n)
    /\ UNCHANGED <<capi, cty, cval, csub, cenc, cClosed, cbuf, cpc, cout, cextra>>
    /\ UNCHANGED notCodecVars

\* The byte stream ends after the last byte.
CStreamEnds ==
    /\ cenc # UNSET /\ cLeft = <<>> /\ ~cClosed
    /\ cClosed' = TRUE
    /\ UNCHANGED <<capi, cty, cval, csub, cenc, cLeft, c_rx, cbuf, cpc, cout,
                   cextra>>
    /\ UNCHANGED notCodecVars

\* The decoder the receiver calls, over the bytes taken so far.
receive_value(a, t, buf, sub) ==
    IF a = "receive" THEN receive_stream_static(t.t, buf, sub)
    ELSE receive_context(t, buf, sub)

\* The decoder has returned r, or awaits a chunk.
value_returned(r) ==
    IF r.k = "Pending" THEN cpc' = "decoding" /\ UNCHANGED cout
    ELSE cpc' = "done" /\ cout' = r

\* The receiver calls the decoder with an empty payload.
CReceiveStart ==
    /\ cpc = "idle"
    /\ value_returned(receive_value(capi, cty, <<>>, csub))
    /\ UNCHANGED <<capi, cty, cval, csub, cenc, cLeft, c_rx, cClosed, cbuf, cextra>>
    /\ UNCHANGED notCodecVars

\* The decoder is handed the item it awaited.
value_chunk(item) ==
    IF item.k = "Chunk"
    THEN /\ cbuf' = cbuf \o item.bytes
         /\ value_returned(receive_value(capi, cty, cbuf \o item.bytes, csub))
    ELSE /\ cpc' = "done"
         /\ cout' = RxErr("unexpected end of stream")
         /\ UNCHANGED cbuf

\* rx.try_next() in receive_at_least / receive_leb128_unsigned yields.
CReceive ==
    /\ cpc = "decoding"
    /\ try_next(c_rx, cClosed).k # "Pending"
    /\ c_rx' = IF c_rx # <<>> THEN Tail(c_rx) ELSE c_rx
    /\ value_chunk(try_next(c_rx, cClosed))
    /\ UNCHANGED <<capi, cty, cval, csub, cenc, cLeft, cClosed, cextra>>
    /\ UNCHANGED notCodecVars

CodecNext == CEncode \/ CPublish \/ CStreamEnds \/ CReceiveStart \/ CReceive

SpecCodec == CodecInit /\ [][CodecNext]_vars

\* The decoder was handed a list or stream of async elements with its planned
\* subscription.
HandedDemux ==
    /\ cval = NONE /\ cty \in DemuxTypes /\ cenc.buf \in DemuxPayloads
    /\ csub = subscribe_async(Root, cty).sub

\* C36: decoding a list or a stream whose element type contains a future or a
\* stream with the planned subscription always fails with a "demultiplexing
\* ... not supported yet" error, for every payload including the empty list,
\* and before any payload byte is consumed.
C36_DemuxNotSupported ==
    HandedDemux =>
        /\ cpc # "decoding" /\ cbuf = <<>>
        /\ cpc = "done" =>
              /\ cout.k = "Err"
              /\ cout.why \in {"demultiplexing lists not supported yet",
                                "demultiplexing streams not supported yet"}

\* C37: no decoding reaches the unreachable!() of AsyncSubscriptionDemux::select
\* or DemuxStream::poll_next: a decoder that would select from a demultiplexer
\* never holds one, because building it fails for every subscription.
C37_SelectUnreachable ==
    /\ cout # Unreachable
    /\ (HandedDemux /\ cpc = "done") => cout.k = "Err" /\ cbuf = <<>>

\* A stream of streams with two elements announced was decoded with its
\* planned subscription and the decoder has returned the error.
C37_Witness ==
    /\ HandedDemux /\ cpc = "done"
    /\ cty = TStream(TStream(NONE)) /\ cenc.buf = <<2, 0, 0>> /\ c_rx # <<>>
    /\ cout = RxErr("demultiplexing streams not supported yet")

\* C11: for every type without Future / Stream descendants and every
\* well-typed value v, encoding v returns no async tree, and decoding the
\* bytes, delivered as a byte stream that ends after them, yields v.
C11_SyncRoundTrip ==
    (cval # NONE /\ cextra = <<>>) =>
        /\ cenc # UNSET => cenc.tx = NONE
        /\ cpc = "done" => cout = RxOk(cval, <<>>)

\* The element a decoder of type t yields from the one byte b.
ElementOf(t, b) == IF t.k = "U8" THEN VU8(b) ELSE VU32(b)

\* The decoder was handed a lone stream whose header byte is h and has returned.
StreamReturned(h) ==
    /\ cval = NONE /\ cty.k = "Stream"
    /\ cpc = "done" /\ cbuf # <<>> /\ cbuf[1] = h

\* C16: when the header byte of a stream on the primary payload is 1, the
\* decoder, by static type and by Type, decodes exactly one inline element and
\* reads the terminating 0 byte before it returns: the leftover buffer starts
\* after the terminator, and the value that follows the stream in a record is
\* decoded from there.
C16_InlineOneTerminator ==
    /\ (StreamReturned(1) /\ cout.k = "Ok") =>
          LET n == IF cty.t = NONE THEN 2 ELSE 3
          IN  /\ Len(cbuf) >= n /\ cbuf[n] = 0
              /\ cout.v = RStreamInline(<<IF cty.t = NONE THEN NONE
                                           ELSE ElementOf(cty.t, cbuf[2])>>)
              /\ cout.rest = Drop(cbuf, n)
    /\ (cval = NONE /\ cty.k = "Record" /\ cpc = "done" /\ cout.k = "Ok"
        /\ cbuf[1] = 1) =>
          /\ Len(cbuf) >= 4 /\ cbuf[3] = 0
          /\ cout.v = VRecord(<<RStreamInline(<<VU8(cbuf[2])>>), VU8(cbuf[4])>>)

\* C17: when the header byte of a stream is neither 0 nor 1 it starts a LEB128
\* length n; the decoded stream yields exactly n inline elements in order (n
\* unit items for a stream without element type), and the terminating 0 byte
\* after them is checked and consumed before the decoder returns; a missing or
\* non-zero terminator is a decode error, never a panic.
C17_BulkTerminator ==
    StreamReturned(2) =>
        /\ cout.k # "Panic"
        /\ cout.k = "Ok" =>
              LET n == IF cty.t = NONE THEN 2 ELSE 4
              IN  /\ Len(cbuf) >= n /\ cbuf[n] = 0
                  /\ cout.v = RStreamInline(
                                 IF cty.t = NONE THEN <<NONE, NONE>>
                                 ELSE <<ElementOf(cty.t, cbuf[2]),
                                        ElementOf(cty.t, cbuf[3])>>)
                  /\ cout.rest = Drop(cbuf, n)

\* The decoder was handed the bytes a peer sent for type t and has returned.
PeerDecoded(t, bytes) ==
    /\ cval = NONE /\ csub = NONE /\ cty = t /\ cenc.buf = bytes /\ cpc = "done"

\* ... and what it returned is r, or an error.
Accepted(t, bytes, r) == PeerDecoded(t, bytes) => cout = r
Rejected(t, bytes) == PeerDecoded(t, bytes) => cout.k = "Err"

\* C23: when the decoding of an element of a record, tuple, list or variant
\* payload fails (unexpected end of stream, invalid option or result byte,
\* unknown case, invalid UTF-8, invalid char, integer overflow, subscription
\* mismatch), the decoding of the whole compound returns an error and no
\* value.
C23_WholeValueFails ==
    (/\ cval = NONE /\ cpc = "done"
     /\ \/ csub = NONE /\ PeerValue(cty, cenc.buf) \in PeerBroken
        \/ csub = SubTuple(<<NONE, NONE>>)) =>
        /\ cout.k = "Err"
        /\ DOMAIN cout = {"k", "why"}

\* The second element of a tuple of three was an invalid char: the tuple's
\* decoding has failed, although its first and third element are sound.
C23_Witness ==
    /\ PeerDecoded(TTuple(<<TU8, TChar, TU8>>), <<7, 128, 176, 3, 9>>)
    /\ cout = RxErr("invalid char received")

\* The tuple (u8 = 7, s32 = -3, string = "hi").
TupleExample == VTuple(<<VU8(7), VS32(-3), VString(<<104, 105>>)>>)

\* C25: a tuple is encoded as its elements' encodings in order and nothing
\* more: (u8 = 7, s32 = -3, string = "hi") is the bytes 07 7D 02 68 69, and
\* decoding them with the same types returns the same three values.
C25_TupleBytes ==
    cval = TupleExample =>
        /\ cenc # UNSET => cenc = Encoded(<<7, 125, 2, 104, 105>>, NONE)
        /\ cpc = "done" =>
              /\ cout.k = "Ok" /\ cout.v = TupleExample
              /\ cextra = <<>> => cout.rest = <<>>

\* The five bytes of the tuple, the last on the stream, have been decoded.
C25_Witness ==
    /\ cval = TupleExample /\ cextra = <<>> /\ cpc = "done"
    /\ cbuf = <<7, 125, 2, 104, 105>>
    /\ cout = RxOk(TupleExample, <<>>)

\* C27: a decoded value is the one that was encoded, the decoder has consumed
\* exactly the bytes of its encoding and returns every byte buffered after
\* them, unchanged and in order; the elements of a compound are decoded left
\* to right, each from the leftover of the one before, and the subscription
\* of slot i goes to element i.
C27_ExactConsumption ==
    /\ (cval # NONE /\ cpc = "done" /\ cout.k = "Ok") =>
          /\ cout.v = cval
          /\ cbuf = SubSeq(cenc.buf \o cextra, 1, Len(cbuf))
          /\ cout.rest = Drop(cbuf, Len(cenc.buf))
    /\ (cval = NONE /\ cty = TRecord(<<TStream(TU8), TU8>>) /\ cpc = "done"
        /\ cbuf = <<0, 42>>) =>
          cout = RxOk(VRecord(<<RStreamPending(TU8, child(Root, 0)), VU8(42)>>),
                      <<>>)

\* The tuple was decoded from a buffer that held four more bytes, and they
\* came back as the leftover.
C27_Witness ==
    /\ cval = TupleExample /\ cpc = "done"
    /\ cbuf = <<7, 125, 2, 104, 105, 1, 2, 3, 4>>
    /\ cout = RxOk(TupleExample, <<1, 2, 3, 4>>)

\* C28: a LEB128 number that does not fit u16, u32, s16, s32, a char, a list
\* length or a discriminant is a decode error, never a truncated or wrapped
\* value; the numbers at the bounds decode; a u32 that is no Unicode scalar
\* value is rejected as a char.
C28_WidthOverflow ==
    /\ Accepted(TU16, <<255, 255, 3>>, RxOk(VU16(65535), <<>>))
    /\ Rejected(TU16, <<128, 128, 4>>)
    /\ Accepted(TU32, <<255, 255, 255, 255, 7>>, RxOk(VU32(2147483647), <<>>))
    /\ Rejected(TU32, <<128, 128, 128, 128, 16>>)
    /\ Accepted(TS16, <<128, 128, 126>>, RxOk(VS16(-32768), <<>>))
    /\ Rejected(TS16, <<128, 128, 2>>)
    /\ Rejected(TS16, <<255, 255, 125>>)
    /\ Accepted(TS32, <<128, 128, 128, 128, 120>>, RxOk(VS32(-2147483647 - 1), <<>>))
    /\ Rejected(TS32, <<128, 128, 128, 128, 8>>)
    /\ Rejected(TS32, <<255, 255, 255, 255, 119>>)
    /\ Accepted(TChar, <<255, 255, 67>>, RxOk(VChar(1114111), <<>>))
    /\ Accepted(TChar, <<128, 176, 3>>, RxErr("invalid char received"))
    /\ Accepted(TChar, <<128, 128, 68>>, RxErr("invalid char received"))
    /\ Rejected(TChar, <<128, 128, 128, 128, 16>>)
    /\ Rejected(TList(TU8), <<128, 128, 128, 128, 16>>)
    /\ Rejected(TVariant(<<NONE, TU8>>), <<128, 128, 128, 128, 16>>)
    /\ Rejected(TEnum, <<128, 128, 128, 128, 16>>)

\* 65536 was sent for a u16 and the decoder has returned the overflow error.
C28_Witness ==
    /\ PeerDecoded(TU16, <<128, 128, 4>>)
    /\ cout = RxErr("received integer value overflows u16")

\* C29: the f32 decoder consumes 4 bytes but awaits 8: an f32 followed by four
\* bytes or more is decoded and the bytes after its 4 are the leftover; an
\* f32 whose 4 bytes are the last of the stream, or are followed by fewer
\* than four, fails with an unexpected end of stream.
C29_Float32Buffering ==
    (cval # NONE /\ cty = TFloat32 /\ cpc = "done") =>
        IF Len(cextra) >= 4
        THEN cout = RxOk(cval, Drop(cbuf, 4)) /\ Len(cbuf) >= 8
        ELSE cout = RxErr("unexpected end of stream")

\* The 4 bytes of 1.0 were the last of the stream and the decoder has failed.
C29_Witness ==
    /\ cval = VFloat32(<<0, 0, 128, 63>>) /\ cextra = <<>> /\ cpc = "done"
    /\ cbuf = <<0, 0, 128, 63>>
    /\ cout = RxErr("unexpected end of stream")

\* The subjects of the Future and Stream subscriptions a decoded value holds.
RECURSIVE Subscribers(_)
Subscribers(v) ==
    CASE v.k = "Variant" -> IF v.nested = NONE THEN {} ELSE Subscribers(v.nested)
      [] v.k = "Option" -> IF v.v = NONE THEN {} ELSE Subscribers(v.v)
      [] v.k = "Future" /\ ~v.ready -> {v.subscriber}
      [] v.k = "Stream" /\ v.pending -> {v.subscriber}
      [] OTHER -> {}

\* The encoding of the variant v is its discriminant and its payload's.
VariantEncoding(v) ==
    IF v.nested = NONE THEN Encoded(Leb128U(v.discriminant), NONE)
    ELSE Encoded(Leb128U(v.discriminant) \o encode(v.nested).buf,
                 IF encode(v.nested).tx = NONE THEN NONE
                 ELSE AVariant(v.discriminant, encode(v.nested).tx))

\* C32: a variant is encoded as its discriminant in unsigned LEB128 followed
\* by the encoding of its payload, if any, and its async parts are returned
\* under the same discriminant; a discriminant that is no index of a case is
\* a decode error; case d is decoded with the subscription planned for case
\* d alone, so every subscription the decoded value holds is on a subject
\* under child d, where transmit_async publishes the async parts.
C32_VariantDiscriminant ==
    /\ (cval # NONE /\ cval.k = "Variant" /\ cenc # UNSET) =>
          cenc = VariantEncoding(cval)
    /\ Accepted(TVariant(<<NONE, TString>>), <<2>>,
                RxErr("variant discriminant is unknown"))
    /\ (cval = NONE /\ cty \in AsyncVariantTypes) =>
          \A v \in ValuesOf(cty, <<>>) :
             cenc = encode(v) =>
                /\ cenc = VariantEncoding(v)
                /\ cenc.tx # NONE =>
                      \A p \in transmit_async(Root, cenc.tx) :
                         Under(child(Root, v.discriminant), p.subject)
                /\ cpc = "done" =>
                      /\ cout.k = "Ok" /\ cout.v.discriminant = v.discriminant
                      /\ \A sj \in Subscribers(cout.v) :
                            Under(child(Root, v.discriminant), sj)
                      /\ cenc.tx # NONE =>
                            \E p \in transmit_async(Root, cenc.tx) :
                               p.subject \in Subscribers(cout.v)

\* Case 2 of three, a stream, was decoded as pending on the subject of child
\* 2, where the sender publishes its frames.
C32_Witness ==
    /\ cval = NONE /\ cty = TVariant(<<NONE, TFuture(TU8), TStream(TU8)>>)
    /\ cpc = "done" /\ cbuf = <<2, 0>>
    /\ cout = RxOk(VVariant(2, RStreamPending(TU8, child(Root, 2))), <<>>)
    /\ \E p \in transmit_async(Root, cenc.tx) : p.subject = child(Root, 2)

\* The decoder was handed a mismatched subscription.
HandedMismatch == cval = NONE /\ Mismatch(cty, cenc.buf, csub) \in Mismatched

\* C33: decoding a Future or a Stream with no subscription or with a
\* subscription node of another kind fails before a byte is consumed or a
\* chunk is awaited; decoding a record, tuple, variant, option or result
\* with a subscription node of another kind is an error.
C33_MismatchFailsFast ==
    HandedMismatch =>
        /\ cty.k \in {"Future", "Stream"} => cpc # "decoding" /\ cbuf = <<>>
        /\ cpc = "done" => cout.k = "Err"

(***************************************************************************)
(* A decoded pending stream (header byte 0): the producer task spawned by  *)
(* the decoder reads framed items from the child subscription and hands    *)
(* them to the consumer through mpsc::channel(1); the sender's transmitter *)
(* publishes one frame per item and the end frame.  The transport delivers *)
(* a frame whole, in two chunks, or joined to a chunk not yet taken, and   *)
(* may end the subscription at any time.  Each step of the producer runs   *)
(* from one await to the next; abort() takes effect between two steps.     *)
(***************************************************************************)
\* Items the sender's stream yields at most.
MaxItems == 3

\* mpsc::channel(1).
ChannelCapacity == 1

\* Mutant: a send never waits for room in the channel.
has_permit_unbounded(ch) == TRUE

\* Sender::send completes once the channel has room for the item.
has_permit(ch) == Len(ch) < ChannelCapacity

\* Option<Option<Value>> of the item decoder and the items of the channel.
StreamEnd == [k |-> "End"]
StreamItem(x) == [k |-> "Item", item |-> x]
ItemErr(why) == [k |-> "Err", why |-> why]

\* The frame transmit_async publishes for one item of a stream.
stream_frame(item) == <<1>> \o (IF item = NONE THEN <<>> ELSE encode(item).buf)

\* The frames transmit_async publishes for a stream, the end frame last.
stream_frames(its) == [i \in 1..Len(its) |-> stream_frame(its[i])] \o <<(<<0>>)>>

\* Some(Some(v)) around the decoded element.
item_some(r) == IF r.k # "Ok" THEN r ELSE RxOk(StreamItem(r.v), r.rest)

\* Mutant: every frame is taken for the end of the stream.
receive_stream_item_context_end(t, buf) ==
    IF receive_at_least(buf, 1).k = "Pending" THEN RxPending
    ELSE RxOk(StreamEnd, Drop(buf, 1))

\* ReceiveContext::receive_stream_item_context (receive_stream_item for a
\* static element type): one framed item from the bytes held.
receive_stream_item_context(t, buf) ==
    IF receive_at_least(buf, 1).k = "Pending" THEN RxPending
    ELSE IF buf[1] = 0 THEN RxOk(StreamEnd, Drop(buf, 1))
    ELSE IF buf[1] = 1
         THEN IF t = NONE THEN RxOk(StreamItem(NONE), Drop(buf, 1))
              ELSE item_some(receive_context(t, Drop(buf, 1), NONE))
    ELSE RxErr("invalid stream variant")

\* Mutant: dropping the StreamValue leaves the producer task running.
abort_ignored(pc) == pc

\* JoinHandle::abort on the producer task.
abort(pc) == IF pc \in {"reading", "sending"} THEN "aborted" ELSE pc

RECURSIVE ItemSeqs(_, _)
\* The sequences of at most n items over V.
ItemSeqs(V, n) ==
    IF n = 0 THEN {<<>>}
    ELSE LET S == ItemSeqs(V, n - 1)
         IN  S \cup {Append(its, v) : its \in S, v \in V}

\* What a peer may publish instead of the frames of its: the frames of the
\* items followed by a frame whose first byte is neither 0 nor 1.
BrokenFrames(its) ==
    {SubSeq(stream_frames(its), 1, Len(its)) \o <<(<<2>>)>>}

StreamInit ==
    /\ OthersIdle("stream")
    /\ sv_ty \in {TU32, NONE}
    /\ sv_items \in ItemSeqs(IF sv_ty = NONE THEN {NONE} ELSE {VU32(7), VU32(300)},
                             MaxItems)
    /\ framesLeft \in {stream_frames(sv_items)} \cup BrokenFrames(sv_items)
    /\ child_rx = <<>> /\ childClosed = FALSE
    /\ prodPc = "reading" /\ prodBuf = <<>> /\ prodItem = NONE
    /\ itemsChan = <<>> /\ consumed = <<>> /\ consEnded = FALSE
    /\ svDropped = FALSE /\ subHeld = TRUE
    /\ nDecoded = 0 /\ nReads = 0 /\ readsAtDrop = 0

\* The chunks of one delivery appended to those waiting; the first one may
\* join the last chunk not yet taken.
Delivered(rx, d) ==
    {rx \o [i \in 1..Len(d) |-> Chunk(d[i])]}
    \cup (IF rx = <<>> THEN {}
          ELSE {SubSeq(rx, 1, Len(rx) - 1)
                \o <<Chunk(rx[Len(rx)].bytes \o d[1])>>
                \o [i \in 1..(Len(d) - 1) |-> Chunk(d[i + 1])]})

\* transmit_async publishes the next frame on the stream's subject; a publish
\* on a subject whose subscription has been released is lost.
PublishFrame ==
    /\ framesLeft # <<>> /\ ~childClosed
    /\ framesLeft' = Tail(framesLeft)
    /\ IF subHeld
       THEN \E d \in Deliveries(Head(framesLeft)) :
               child_rx' \in Delivered(child_rx, d)
       ELSE UNCHANGED child_rx
    /\ UNCHANGED <<sv_ty, sv_items, childClosed, prodPc, prodBuf, prodItem,
                   itemsChan, consumed, consEnded, svDropped, subHeld, nDecoded,
                   nReads, readsAtDrop>>
    /\ UNCHANGED notStreamVars

\* The transport ends the child subscription's stream.
ChildStreamEnds ==
    /\ ~childClosed
    /\ childClosed' = TRUE
    /\ UNCHANGED <<sv_ty, sv_items, framesLeft, child_rx, prodPc, prodBuf,
                   prodItem, itemsChan, consumed, consEnded, svDropped, subHeld,
                   nDecoded, nReads, readsAtDrop>>
    /\ UNCHANGED notStreamVars

\* The match on what the item decoder returned over the bytes buf.
item_returned(r, buf) ==
    CASE r.k = "Pending" ->
            /\ prodBuf' = buf
            /\ UNCHANGED <<prodPc, prodItem, subHeld, nDecoded>>
      [] r.k = "Ok" /\ r.v = StreamEnd ->
            /\ prodPc' = "returned" /\ subHeld' = FALSE
            /\ prodBuf' = r.rest
            /\ UNCHANGED <<prodItem, nDecoded>>
      [] r.k = "Ok" /\ r.v # StreamEnd ->
            /\ prodPc' = "sending" /\ prodItem' = r.v
            /\ prodBuf' = r.rest /\ nDecoded' = nDecoded + 1
            /\ UNCHANGED subHeld
      [] r.k = "Err" ->
            /\ prodPc' = "sending" /\ prodItem' = ItemErr(r.why)
            /\ prodBuf' = buf
            /\ UNCHANGED <<subHeld, nDecoded>>

\* The producer is handed the item of the child subscription it awaited.
producer_chunk(item) ==
    IF item.k = "Chunk"
    THEN item_returned(receive_stream_item_context(sv_ty, prodBuf \o item.bytes),
                       prodBuf \o item.bytes)
    ELSE /\ prodPc' = "sending" /\ prodItem' = ItemErr("unexpected end of stream")
         /\ UNCHANGED <<prodBuf, subHeld, nDecoded>>

\* The producer task awaits a chunk in the item decoder and is handed one.
ProducerRead ==
    /\ prodPc = "reading"
    /\ receive_stream_item_context(sv_ty, prodBuf).k = "Pending"
    /\ try_next(child_rx, childClosed).k # "Pending"
    /\ child_rx' = IF child_rx # <<>> THEN Tail(child_rx) ELSE child_rx
    /\ nReads' = IF child_rx # <<>> THEN nReads + 1 ELSE nReads
    /\ producer_chunk(try_next(child_rx, childClosed))
    /\ UNCHANGED <<sv_ty, sv_items, framesLeft, childClosed, itemsChan, consumed,
                   consEnded, svDropped, readsAtDrop>>
    /\ UNCHANGED notStreamVars

\* The producer task decodes the next item from the bytes left over.
ProducerDecode ==
    /\ prodPc = "reading"
    /\ receive_stream_item_context(sv_ty, prodBuf).k # "Pending"
    /\ item_returned(receive_stream_item_context(sv_ty, prodBuf), prodBuf)
    /\ UNCHANGED <<sv_ty, sv_items, framesLeft, child_rx, childClosed, itemsChan,
                   consumed, consEnded, svDropped, nReads, readsAtDrop>>
    /\ UNCHANGED notStreamVars

\* Mutant: the producer goes on decoding after it has sent an error item.
after_send_continues(item, dropped) ==
    IF dropped THEN "returned" ELSE "reading"

\* What the producer task does once send has completed: it returns if the
\* receiver is gone or the item sent was an error, and decodes on otherwise.
after_send(item, dropped) ==
    IF dropped \/ item.k = "Err" THEN "returned" ELSE "reading"

\* items_tx.send(..).await completes: the channel has room, or the receiver is
\* gone and the task returns; after an error item the task returns.
ProducerSend ==
    /\ prodPc = "sending"
    /\ svDropped \/ has_permit(itemsChan)
    /\ itemsChan' = IF svDropped THEN itemsChan ELSE Append(itemsChan, prodItem)
    /\ prodPc' = after_send(prodItem, svDropped)
    /\ subHeld' = (~svDropped /\ prodItem.k # "Err")
    /\ prodItem' = NONE
    /\ UNCHANGED <<sv_ty, sv_items, framesLeft, child_rx, childClosed, prodBuf,
                   consumed, consEnded, svDropped, nDecoded, nReads, readsAtDrop>>
    /\ UNCHANGED notStreamVars

\* StreamValue::poll_next returns Ready: the next item of the channel, or the
\* end of the stream once the producer has returned.
ConsumerPoll ==
    /\ ~svDropped /\ ~consEnded
    /\ IF itemsChan # <<>>
       THEN /\ consumed' = Append(consumed, Head(itemsChan))
            /\ itemsChan' = Tail(itemsChan)
            /\ UNCHANGED consEnded
       ELSE /\ prodPc = "returned"
            /\ consEnded' = TRUE
            /\ UNCHANGED <<consumed, itemsChan>>
    /\ UNCHANGED <<sv_ty, sv_items, framesLeft, child_rx, childClosed, prodPc,
                   prodBuf, prodItem, svDropped, subHeld, nDecoded, nReads,
                   readsAtDrop>>
    /\ UNCHANGED notStreamVars

\* Drop for StreamValue: the producer is aborted, then the receiving half of
\* the channel is dropped; an aborted task drops what it owns.
DropStream ==
    /\ ~svDropped
    /\ svDropped' = TRUE
    /\ prodPc' = abort(prodPc)
    /\ subHeld' = (abort(prodPc) \in {"reading", "sending"})
    /\ itemsChan' = <<>>
    /\ readsAtDrop' = nReads
    /\ UNCHANGED <<sv_ty, sv_items, framesLeft, child_rx, childClosed, prodBuf,
                   prodItem, consumed, consEnded, nDecoded, nReads>>
    /\ UNCHANGED notStreamVars

StreamNext ==
    \/ PublishFrame
    \/ ChildStreamEnds
    \/ ProducerRead
    \/ ProducerDecode
    \/ ProducerSend
    \/ ConsumerPoll
    \/ DropStream

SpecStream == StreamInit /\ [][StreamNext]_vars

\* The items read so far that carry a value (or the unit).
ItemCount(its) == Cardinality({i \in 1..Len(its) : its[i].k = "Item"})

NoErrItem(its) == \A i \in 1..Len(its) : its[i].k # "Err"

\* C12: the items a consumer reads from a decoded pending stream are exactly
\* the items framed on the stream's child subject, in publication order, none
\* lost, duplicated or reordered, and the stream ends when the end frame 00 is
\* received: an error item comes last, and a stream that ended without one has
\* yielded every item.
C12_StreamItemsInOrder ==
    /\ \A i \in 1..Len(consumed) :
          /\ consumed[i].k = "Item" =>
                i <= Len(sv_items) /\ consumed[i] = StreamItem(sv_items[i])
          /\ consumed[i].k = "Err" => i = Len(consumed)
    /\ (consEnded /\ NoErrItem(consumed)) =>
          consumed = [i \in 1..Len(sv_items) |-> StreamItem(sv_items[i])]

\* The consumer has read 7, 300, 7 and the end of the stream, the producer
\* having decoded an item from bytes left over by the previous one.
C12_Witness ==
    /\ sv_items = <<VU32(7), VU32(300), VU32(7)>>
    /\ consEnded
    /\ consumed = <<StreamItem(VU32(7)), StreamItem(VU32(300)), StreamItem(VU32(7))>>
    /\ nReads < 4

C14_BoundedHandOff ==
    /\ Len(itemsChan) <= 1
    /\ nDecoded <= ItemCount(consumed) + 2
    /\ (~svDropped /\ prodPc \in {"reading", "sending"}) =>
          nDecoded = ItemCount(consumed) + Len(itemsChan)
                       + (IF prodPc = "sending" /\ prodItem.k = "Item" THEN 1 ELSE 0)

\* The consumer has read nothing; one item is in the channel, a second one is
\* held by the blocked producer, and the next frame waits unread.
C14_Witness ==
    /\ ~svDropped /\ consumed = <<>>
    /\ Len(itemsChan) = 1 /\ prodPc = "sending" /\ nDecoded = 2
    /\ child_rx # <<>>

\* The error items among its.
ErrCount(its) == Cardinality({i \in 1..Len(its) : its[i].k = "Err"})

\* C24: when the stream producer fails to receive or decode an item, the
\* consumer reads every item decoded before it, in order, then exactly one
\* error item, then the end of the stream, and the producer task has
\* returned: no item is decoded, sent or read after the error.
C24_ErrorEndsStream ==
    /\ ErrCount(consumed) + ErrCount(itemsChan)
          + (IF prodItem.k = "Err" THEN 1 ELSE 0) <= 1
    /\ ErrCount(itemsChan) = 1 =>
          /\ prodPc = "returned" /\ prodItem = NONE
          /\ itemsChan[Len(itemsChan)].k = "Err"
    /\ ErrCount(consumed) = 1 =>
          /\ consumed[Len(consumed)].k = "Err"
          /\ \A i \in 1..(Len(consumed) - 1) :
                consumed[i] = StreamItem(sv_items[i])
          /\ ItemCount(consumed) = nDecoded
          /\ prodPc = "returned" /\ ~subHeld
          /\ itemsChan = <<>> /\ prodItem = NONE

\* The third frame was invalid: the consumer has read 7, 300, the error and
\* the end of the stream.
C24_Witness ==
    /\ consumed = <<StreamItem(VU32(7)), StreamItem(VU32(300)),
                    ItemErr("invalid stream variant")>>
    /\ consEnded /\ prodPc = "returned"

(***************************************************************************)
(* SpecTx: one call of Transmitter::transmit_async on an AsyncValue::Future *)
(* or an AsyncValue::Stream, step by step.  The producer is awaited, the    *)
(* two arms of try_join! (the publish on the subject and the nested         *)
(* transmit_async) make their publishes in any interleaving, and a failure  *)
(* of the producer or of a publish ends the call with Err.                  *)
(***************************************************************************)
\* Mutant: a future that yields None publishes nothing.
tx_future_join_silent(subject, fut) ==
    IF fut.out # NONE
    THEN LET r == encode(fut.out)
         IN  [main |-> Pub(subject, r.buf, fut.id, "Future", 0),
              nested |-> IF r.tx = NONE THEN {}
                         ELSE transmit_async(child(subject, 0), r.tx)]
    ELSE [main |-> UNSET, nested |-> {}]

\* The AsyncValue::Future arm once v.await has returned: the publish on subject
\* and the publishes of the nested transmit_async joined with it.
tx_future_join(subject, fut) ==
    IF fut.out # NONE
    THEN LET r == encode(fut.out)
         IN  [main |-> Pub(subject, r.buf, fut.id, "Future", 0),
              nested |-> IF r.tx = NONE THEN {}
                         ELSE transmit_async(child(subject, 0), r.tx)]
    ELSE [main |-> Pub(subject, <<>>, fut.id, "Future", 0), nested |-> {}]

\* The AsyncValue::Stream arm for one item Some(item) taken at index i.
tx_stream_join(subject, id, i, item) ==
    IF item = NONE
    THEN [main |-> Pub(subject, <<1>>, id, "Stream", i), nested |-> {}]
    ELSE LET r == encode(item)
         IN  [main |-> Pub(subject, <<1>> \o r.buf, id, "Stream", i),
              nested |-> IF r.tx = NONE THEN {}
                         ELSE transmit_async(child(child(subject, i), 0), r.tx)]

\* Mutant: the index is never advanced.
next_index_stuck(i) == i

\* i += 1.
next_index(i) == i + 1

\* The futures handed to transmit_async: none is ready.
TxFutures ==
    {VFuture(1, FALSE, NONE), VFuture(1, FALSE, VU32(300)),
     VFuture(1, FALSE, VRecord(<<VU32(1), VFuture(2, FALSE, VU8(5))>>)),
     VFuture(1, FALSE, VStream(2, <<VU8(5)>>))}

\* The items a stream yields: the unit, a plain value, a value with async parts.
TxItems == {NONE, VU32(300), VFuture(2, FALSE, VU8(5))}

TxInit ==
    /\ OthersIdle("tx")
    /\ tnode \in {AFuture(f) : f \in TxFutures}
                   \cup {AStream(VStream(1, its)) : its \in ItemSeqs(TxItems, MaxItems)}
    /\ tsubject \in {Root, child(Root, 1)}
    /\ tpc = "awaiting"
    /\ ti = 0
    /\ tleft = IF tnode.k = "Stream" THEN tnode.str.items ELSE <<>>
    /\ tmain = UNSET
    /\ tnested = {}
    /\ tlog = <<>>
    /\ tused = <<>>
    /\ tprodErr = FALSE
    /\ tresult = "none"

\* v.await returns Ok: the value is encoded and try_join! starts (or the empty
\* payload is handed to transmit).
TxAwaitFuture ==
    /\ tpc = "awaiting" /\ tnode.k = "Future"
    /\ LET j == tx_future_join(tsubject, tnode.fut)
       IN  tmain' = j.main /\ tnested' = j.nested
    /\ tpc' = "joining"
    /\ UNCHANGED <<tnode, tsubject, ti, tleft, tlog, tused, tprodErr, tresult>>
    /\ UNCHANGED notTxVars

\* v.try_next().await returns Ok: the end of the stream or the next item.
TxTryNext ==
    /\ tpc = "awaiting" /\ tnode.k = "Stream"
    /\ IF tleft = <<>>
       THEN /\ tmain' = Pub(tsubject, <<0>>, tnode.str.id, "Stream", ti)
            /\ tnested' = {}
            /\ tpc' = "ending"
            /\ UNCHANGED <<tleft, tused>>
       ELSE /\ LET j == tx_stream_join(tsubject, tnode.str.id, ti, Head(tleft))
               IN  tmain' = j.main /\ tnested' = j.nested
            /\ tpc' = "joining"
            /\ tleft' = Tail(tleft)
            /\ tused' = Append(tused, ti)
    /\ UNCHANGED <<tnode, tsubject, ti, tlog, tprodErr, tresult>>
    /\ UNCHANGED notTxVars

\* The producer fails: v.await or v.try_next().await returns Err and the ?
\* returns it.
TxProducerFails ==
    /\ tpc = "awaiting"
    /\ tprodErr' = TRUE
    /\ tresult' = "Err"
    /\ tpc' = "done"
    /\ UNCHANGED <<tnode, tsubject, ti, tleft, tmain, tnested, tlog, tused>>
    /\ UNCHANGED notTxVars

\* self.transmit(subject, payload) completes.
TxTransmit ==
    /\ tpc \in {"joining", "ending"} /\ tmain # UNSET
    /\ tlog' = Append(tlog, tmain)
    /\ tmain' = UNSET
    /\ UNCHANGED <<tnode, tsubject, tpc, ti, tleft, tnested, tused, tprodErr, tresult>>
    /\ UNCHANGED notTxVars

\* The nested transmit_async makes its next publish; the frames of one nested
\* stream go out in order.
TxTransmitNested ==
    /\ tpc = "joining"
    /\ \E p \in tnested :
          /\ \A q \in tnested : (q.subject = p.subject /\ q.src = p.src) => q.n >= p.n
          /\ tlog' = Append(tlog, p)
          /\ tnested' = tnested \ {p}
    /\ UNCHANGED <<tnode, tsubject, tpc, ti, tleft, tmain, tused, tprodErr, tresult>>
    /\ UNCHANGED notTxVars

\* Mutant: the loop goes on once the frame of the item is published.
try_joined_on_frame(main, nested) == main = UNSET

\* try_join! returns Ok once the publish of the frame and the nested
\* transmit_async have both returned Ok.
try_joined(main, nested) == main = UNSET /\ nested = {}

\* Both arms of try_join! (or the lone transmit) have returned Ok: the stream
\* arm advances i and loops, the others return Ok.
TxJoined ==
    /\ tpc \in {"joining", "ending"} /\ try_joined(tmain, tnested)
    /\ IF tpc = "joining" /\ tnode.k = "Stream"
       THEN /\ ti' = next_index(ti)
            /\ tpc' = "awaiting"
            /\ UNCHANGED tresult
       ELSE /\ tresult' = "Ok"
            /\ tpc' = "done"
            /\ UNCHANGED ti
    /\ UNCHANGED <<tnode, tsubject, tleft, tmain, tnested, tlog, tused, tprodErr>>
    /\ UNCHANGED notTxVars

\* A publish fails: try_join! returns the error and drops the other arm.
TxTransmitFails ==
    /\ tpc \in {"joining", "ending"}
    /\ tmain # UNSET \/ tnested # {}
    /\ tmain' = UNSET
    /\ tnested' = {}
    /\ tresult' = "Err"
    /\ tpc' = "done"
    /\ UNCHANGED <<tnode, tsubject, ti, tleft, tlog, tused, tprodErr>>
    /\ UNCHANGED notTxVars

TxNext ==
    \/ TxAwaitFuture
    \/ TxTryNext
    \/ TxProducerFails
    \/ TxTransmit
    \/ TxTransmitNested
    \/ TxJoined
    \/ TxTransmitFails

SpecTx == TxInit /\ [][TxNext]_vars

RECURSIVE OnSubject(_, _)
\* The payloads of the publishes of a log made on one subject, in order.
OnSubject(log, s) ==
    IF log = <<>> THEN <<>>
    ELSE (IF Head(log).subject = s THEN <<Head(log).payload>> ELSE <<>>)
            \o OnSubject(Tail(log), s)

\* The publishes of a log made on other subjects than s.
OffSubject(log, s) == {log[j] : j \in {x \in 1..Len(log) : log[x].subject # s}}

\* C15: for a stream that yields n items and ends, transmit_async publishes on
\* the stream's subject one payload per item, in producer order, each 01
\* followed by the element's encoding when the item carries a value, and then
\* one payload 00, n+1 in all once it has returned Ok; the index i is 0 for the
\* first item and one more for each item after it, unit items included, and the
\* async parts of item i are published under child(Some(i)).child(Some(0)).
C15_StreamPublishesInOrder ==
    tnode.k = "Stream" =>
        LET its == tnode.str.items
            n == Len(its)
            sent == OnSubject(tlog, tsubject)
            frame(j) == IF j = n + 1 THEN <<0>>
                        ELSE IF its[j] = NONE THEN <<1>>
                        ELSE <<1>> \o encode(its[j]).buf
        IN  /\ Len(sent) <= n + 1
            /\ \A j \in 1..Len(sent) : sent[j] = frame(j)
            /\ tresult = "Ok" => Len(sent) = n + 1
            /\ \A j \in 1..Len(tused) : tused[j] = j - 1
            /\ \A p \in OffSubject(tlog, tsubject) :
                  \E j \in 1..Len(tused) :
                      /\ its[j] # NONE
                      /\ Under(child(child(tsubject, j - 1), 0), p.subject)

\* A stream of three items has been transmitted; its first item is the unit and
\* the async part of its second item went out under child(1).child(0).
C15_Witness ==
    /\ tnode.k = "Stream" /\ tresult = "Ok" /\ Len(tnode.str.items) = 3
    /\ tnode.str.items[1] = NONE
    /\ \E j \in 1..Len(tlog) : tlog[j].subject = child(child(tsubject, 1), 0)

\* The publishes transmit_async makes for the async parts of item j of the
\* stream being transmitted.
ItemParts(j) ==
    LET item == tnode.str.items[j]
    IN  IF item = NONE \/ encode(item).tx = NONE THEN {}
        ELSE transmit_async(child(child(tsubject, j - 1), 0), encode(item).tx)

\* The frame of item j is published and the transmission of its async parts
\* has completed.
ItemComplete(j) ==
    /\ Len(OnSubject(tlog, tsubject)) >= j
    /\ ItemParts(j) \subseteq {tlog[x] : x \in 1..Len(tlog)}

\* C38: while a stream is transmitted, item i+1 is neither pulled from the
\* producer nor published, and the end of the stream is neither pulled nor
\* published, before the frame of item i is published and the transmission
\* of every async part of item i has completed: an item whose nested future
\* does not resolve holds back every later item and the final 00 frame.
C38_ItemsInLockstep ==
    tnode.k = "Stream" =>
        \A j \in 1..Len(tnode.str.items) :
            (\/ Len(tused) > j
             \/ Len(OnSubject(tlog, tsubject)) > j
             \/ j = Len(tnode.str.items) /\ tpc = "ending"
             \/ tresult = "Ok") => ItemComplete(j)

\* The frame of the first item is published, its nested future has not
\* resolved, and the two items after it are still with the producer.
C38_Witness ==
    /\ tnode.k = "Stream" /\ Len(tnode.str.items) = 3
    /\ tpc = "joining" /\ tused = <<0>> /\ Len(tleft) = 2
    /\ OnSubject(tlog, tsubject) = <<(<<1, 0>>)>>
    /\ ItemParts(1) # {} /\ ~ItemComplete(1)

\* C20: transmit_async of a pending future publishes exactly one payload on the
\* future's subject once the producer has yielded: the encoding of v for
\* Some(v), the empty payload for None; the async parts of v are published
\* under child(Some(0)), before or after it; if the producer fails nothing is
\* published and the call returns an error.
C20_FuturePublishesOnce ==
    tnode.k = "Future" =>
        LET out == tnode.fut.out
            sent == OnSubject(tlog, tsubject)
            parts == IF out = NONE \/ encode(out).tx = NONE THEN {}
                     ELSE transmit_async(child(tsubject, 0), encode(out).tx)
        IN  /\ Len(sent) <= 1
            /\ \A j \in 1..Len(sent) :
                  sent[j] = IF out = NONE THEN <<>> ELSE encode(out).buf
            /\ OffSubject(tlog, tsubject) \subseteq parts
            /\ \A p \in parts : Under(child(tsubject, 0), p.subject)
            /\ tresult = "Ok" =>
                  Len(sent) = 1 /\ OffSubject(tlog, tsubject) = parts
            /\ tprodErr => tlog = <<>> /\ tresult = "Err"

\* A future that yielded a record with a future field has been transmitted, and
\* the field's payload went out under child(0) before the record's own payload.
C20_Witness ==
    /\ tnode.k = "Future" /\ tresult = "Ok"
    /\ Len(tlog) = 2
    /\ Under(child(tsubject, 0), tlog[1].subject)
    /\ tlog[2].subject = tsubject /\ tlog[2].payload # <<>>

(***************************************************************************)
(* SpecRead: one reader of one subscription stream, step by step: either   *)
(* receive_at_least(payload, rx, n), or the future a pending future<()>    *)
(* decodes to, polled on its child subscription.  The transport delivers   *)
(* the items of the stream one by one and ends it after the last, if at    *)
(* all; an item is a chunk, possibly empty, or a receive error.            *)
(***************************************************************************)
\* The most items a stream yields.
MaxChunks == 3

\* The most bytes receive_at_least is asked for.
MaxAtLeast == 4

\* The chunks and the receive error a stream may yield.
ReadItems == {Chunk(<<>>), Chunk(<<1>>), Chunk(<<2, 3>>), ErrItem}

\* The bytes of the chunks among its, in order.
ChunkBytes(its) ==
    Concat([i \in 1..Len(its) |->
              IF its[i].k = "Chunk" THEN its[i].bytes ELSE <<>>])

\* The chunks the transport delivers for what transmit_async publishes for a
\* future that has resolved to None.
UnitFutureChunks ==
    {[i \in 1..Len(d) |-> Chunk(d[i])] :
        d \in UNION {Deliveries(p.payload) :
                        p \in transmit_future(<<0>>, VFuture(<<>>, FALSE, NONE))}}

ReadInit ==
    /\ OthersIdle("read")
    /\ \/ /\ rd_op = "receive_at_least"
          /\ rd_n \in 0..MaxAtLeast
          /\ rd_prior \in {<<>>, <<9>>, <<9, 8, 7>>}
          /\ rd_items \in ItemSeqs(ReadItems, MaxChunks)
       \/ /\ rd_op = "future"
          /\ rd_n = 0 /\ rd_prior = <<>>
          /\ rd_items \in UnitFutureChunks \cup ItemSeqs(ReadItems, 2)
    /\ rd_wire = rd_items /\ rd_rx = <<>> /\ rd_closed = FALSE
    /\ rd_payload = rd_prior /\ rd_taken = <<>> /\ rd_out = UNSET

\* The transport delivers the next item of the stream.
ReadDeliver ==
    /\ rd_wire # <<>>
    /\ rd_rx' = Append(rd_rx, Head(rd_wire))
    /\ rd_wire' = Tail(rd_wire)
    /\ UNCHANGED <<rd_op, rd_n, rd_prior, rd_items, rd_closed, rd_payload,
                   rd_taken, rd_out>>
    /\ UNCHANGED notReadVars

\* The stream ends after its last item.
ReadStreamEnds ==
    /\ rd_wire = <<>> /\ ~rd_closed
    /\ rd_closed' = TRUE
    /\ UNCHANGED <<rd_op, rd_n, rd_prior, rd_items, rd_wire, rd_rx, rd_payload,
                   rd_taken, rd_out>>
    /\ UNCHANGED notReadVars

\* Mutant: the chunk is put in front of the bytes held.
chain_front(buf, bytes) == bytes \o buf

\* payload.chain(chunk): the bytes held, then the chunk.
chain(buf, bytes) == buf \o bytes

\* receive_at_least, the loop body: what rx.try_next().await yielded, with
\* its two contexts.
at_least_chunk(item) ==
    CASE item.k = "Chunk" ->
            /\ rd_payload' = chain(rd_payload, item.bytes)
            /\ UNCHANGED rd_out
      [] item.k = "Err" ->
            /\ rd_out' = RxErr("failed to receive payload chunk")
            /\ UNCHANGED rd_payload
      [] item.k = "End" ->
            /\ rd_out' = RxErr("unexpected end of stream")
            /\ UNCHANGED rd_payload

\* receive_at_least, one iteration of the loop: fewer than n bytes remain
\* and the stream yields.
ReceiveAtLeastPull ==
    /\ rd_op = "receive_at_least" /\ rd_out = UNSET
    /\ receive_at_least(rd_payload, rd_n).k = "Pending"
    /\ try_next(rd_rx, rd_closed).k # "Pending"
    /\ rd_rx' = IF rd_rx # <<>> THEN Tail(rd_rx) ELSE rd_rx
    /\ rd_taken' = IF rd_rx # <<>> THEN Append(rd_taken, Head(rd_rx)) ELSE rd_taken
    /\ at_least_chunk(try_next(rd_rx, rd_closed))
    /\ UNCHANGED <<rd_op, rd_n, rd_prior, rd_items, rd_wire, rd_closed>>
    /\ UNCHANGED notReadVars

\* receive_at_least, the loop condition is false: Ok(payload).
ReceiveAtLeastReturn ==
    /\ rd_op = "receive_at_least" /\ rd_out = UNSET
    /\ receive_at_least(rd_payload, rd_n).k = "Ok"
    /\ rd_out' = RxOk(rd_payload, <<>>)
    /\ UNCHANGED <<rd_op, rd_n, rd_prior, rd_items, rd_wire, rd_rx, rd_closed,
                   rd_payload, rd_taken>>
    /\ UNCHANGED notReadVars

\* Mutant: the pending unit future resolves on any chunk.
future_unit_any_chunk(item) ==
    CASE item.k = "Err" -> RxErr("failed to receive future value")
      [] item.k = "End" -> RxErr("future stream unexpectedly closed")
      [] item.k = "Chunk" -> RxOk(NONE, <<>>)

\* The async block of a decoded pending future<()>: what it returns on the
\* item subscriber.try_next().await yielded.
future_unit(item) ==
    CASE item.k = "Err" -> RxErr("failed to receive future value")
      [] item.k = "End" -> RxErr("future stream unexpectedly closed")
      [] item.k = "Chunk" /\ item.bytes # <<>> ->
            RxErr("Condition failed: buf.is_empty()")
      [] item.k = "Chunk" /\ item.bytes = <<>> -> RxOk(NONE, <<>>)

\* The pending unit future is polled and its subscription yields.
PollUnitFuture ==
    /\ rd_op = "future" /\ rd_out = UNSET
    /\ try_next(rd_rx, rd_closed).k # "Pending"
    /\ rd_rx' = IF rd_rx # <<>> THEN Tail(rd_rx) ELSE rd_rx
    /\ rd_taken' = IF rd_rx # <<>> THEN Append(rd_taken, Head(rd_rx)) ELSE rd_taken
    /\ rd_out' = future_unit(try_next(rd_rx, rd_closed))
    /\ UNCHANGED <<rd_op, rd_n, rd_prior, rd_items, rd_wire, rd_closed,
                   rd_payload>>
    /\ UNCHANGED notReadVars

ReadNext ==
    \/ ReadDeliver
    \/ ReadStreamEnds
    \/ ReceiveAtLeastPull
    \/ ReceiveAtLeastReturn
    \/ PollUnitFuture

SpecRead == ReadInit /\ [][ReadNext]_vars

\* The items taken are the first items of the stream, in arrival order.
TakenInOrder == rd_taken = SubSeq(rd_items, 1, Len(rd_taken))

\* C26: receive_at_least takes chunks from rx until at least n bytes are
\* buffered and returns the bytes it was handed followed by the chunks taken,
\* in arrival order; it takes a chunk only while fewer than n bytes are
\* buffered, so none when the payload handed in already holds n; it fails
\* when rx ends or yields an error before n bytes are buffered.
C26_ReceiveAtLeast ==
    rd_op = "receive_at_least" =>
        /\ TakenInOrder
        /\ rd_payload = rd_prior \o ChunkBytes(rd_taken)
        /\ \A j \in 0..(Len(rd_taken) - 1) :
              /\ Len(rd_prior \o ChunkBytes(SubSeq(rd_taken, 1, j))) < rd_n
              /\ rd_taken[j + 1].k = "Err" => j + 1 = Len(rd_taken)
        /\ Len(rd_prior) >= rd_n => rd_taken = <<>> /\ rd_out.k # "Err"
        /\ rd_out.k = "Ok" =>
              /\ rd_out.v = rd_payload /\ Len(rd_out.v) >= rd_n
              /\ \A i \in 1..Len(rd_taken) : rd_taken[i].k = "Chunk"
        /\ rd_out.k = "Err" =>
              /\ Len(rd_payload) < rd_n
              /\ \/ /\ rd_out.why = "failed to receive payload chunk"
                    /\ rd_taken # <<>> /\ rd_taken[Len(rd_taken)].k = "Err"
                 \/ /\ rd_out.why = "unexpected end of stream"
                    /\ rd_closed /\ rd_taken = rd_items
        /\ (rd_out = UNSET /\ rd_taken # <<>>) =>
              rd_taken[Len(rd_taken)].k = "Chunk"

\* Handed one byte and asked for three, receive_at_least has taken an empty
\* chunk and a chunk of two bytes, and has left the next chunk on the stream.
C26_Witness ==
    /\ rd_op = "receive_at_least" /\ rd_n = 3 /\ rd_prior = <<9>>
    /\ rd_taken = <<Chunk(<<>>), Chunk(<<2, 3>>)>>
    /\ rd_out = RxOk(<<9, 2, 3>>, <<>>)
    /\ rd_rx = <<Chunk(<<1>>)>>

\* C30: a decoded pending future<()> resolves to None exactly when the first
\* item its child subscription yields is an empty chunk, which is what
\* transmit_async publishes for a future that resolved to None; a non-empty
\* chunk, a receive error or the end of the stream makes it fail; it takes no
\* second item.
C30_UnitFuture ==
    rd_op = "future" =>
        /\ TakenInOrder /\ Len(rd_taken) <= 1
        /\ rd_out = UNSET => rd_taken = <<>>
        /\ rd_taken = <<>> /\ rd_out # UNSET =>
              rd_closed /\ rd_items = <<>>
                /\ rd_out = RxErr("future stream unexpectedly closed")
        /\ rd_out # UNSET =>
              /\ rd_out \in {RxOk(NONE, <<>>)} \cup
                   {RxErr(why) : why \in {"failed to receive future value",
                                          "future stream unexpectedly closed",
                                          "Condition failed: buf.is_empty()"}}
              /\ rd_out = RxOk(NONE, <<>>) <=> rd_taken = <<Chunk(<<>>)>>
              /\ rd_items \in UnitFutureChunks => rd_out = RxOk(NONE, <<>>)

\* The future has resolved to None on the empty chunk the sender published.
C30_Witness ==
    /\ rd_op = "future" /\ rd_items \in UnitFutureChunks
    /\ rd_taken = <<Chunk(<<>>)>> /\ rd_out = RxOk(NONE, <<>>)

\* The future has failed on a chunk that holds a byte.
C30_WitnessNonEmpty ==
    /\ rd_op = "future" /\ rd_taken = <<Chunk(<<1>>)>>
    /\ rd_out = RxErr("Condition failed: buf.is_empty()")

(***************************************************************************)
(* SpecCompound: one call of transmit_async on an AsyncValue::Tuple, of    *)
(* transmit_static or of transmit_tuple_dynamic, over a transport whose    *)
(* every publish may fail.  try_join! and try_join_all return the first    *)
(* error in the poll that meets it and drop the futures still pending.     *)
(***************************************************************************)
\* The elements a tuple is drawn from, for the element at index i: a plain
\* value, a pending future, a stream of one item, a pending future that
\* yields a record holding a pending future.
CtElements(i) ==
    {VU32(5), VFuture(i, FALSE, VU32(7)), VStream(i, <<VU8(1)>>),
     VFuture(i, FALSE, VRecord(<<VU8(2), VFuture(10 + i, FALSE, NONE)>>))}

\* The publish of the encoded buffer.
CtPrimary(subject, vs) == Pub(subject, encode(VTuple(vs)).buf, 0, "Primary", 0)

\* The nested transmit_async calls: the subject and the Option<AsyncValue>
\* of each.  transmit_static hands the value's whole tree to one call on the
\* subject itself, the other two hand element i to a call on child(Some(i)).
ct_nested(a, subject, vs) ==
    IF a = "transmit_static"
    THEN <<[subject |-> subject, tx |-> encode(VTuple(vs)).tx]>>
    ELSE [i \in 1..Len(vs) |->
            [subject |-> child(subject, i - 1), tx |-> encode_elements(vs).txs[i]]]

\* Mutant: the join completes with the publish of the buffer alone.
ct_join_primary_only(main, st) ==
    IF main = "failed" THEN "failed"
    ELSE IF main \in {"ok", "none"} THEN "ok" ELSE "pending"

\* try_join!(try_join_all(nested), self.transmit(..)): failed with the first
\* failure, ok once every future is.
ct_join(main, st) ==
    IF main = "failed" \/ \E i \in 1..Len(st) : st[i] = "failed" THEN "failed"
    ELSE IF main \in {"ok", "none"} /\ \A i \in 1..Len(st) : st[i] \in {"ok", "none"}
         THEN "ok"
    ELSE "pending"

CompoundInit ==
    /\ OthersIdle("compound")
    /\ ct_api \in {"transmit_async", "transmit_static", "transmit_tuple_dynamic"}
    /\ ct_subject \in {Root, child(Root, 1)}
    /\ ct_vals \in {<<a, b, c>> : a \in CtElements(1), b \in CtElements(2),
                                  c \in CtElements(3)}
    /\ ct_api = "transmit_async" => encode(VTuple(ct_vals)).tx # NONE
    /\ ct_main = IF ct_api = "transmit_async" THEN "none" ELSE "pending"
    /\ ct_st = [i \in 1..Len(ct_nested(ct_api, ct_subject, ct_vals)) |->
                  IF ct_nested(ct_api, ct_subject, ct_vals)[i].tx = NONE
                  THEN "none" ELSE "pending"]
    /\ ct_todo = [i \in 1..Len(ct_nested(ct_api, ct_subject, ct_vals)) |->
                    IF ct_nested(ct_api, ct_subject, ct_vals)[i].tx = NONE THEN {}
                    ELSE transmit_async(ct_nested(ct_api, ct_subject, ct_vals)[i].subject,
                                        ct_nested(ct_api, ct_subject, ct_vals)[i].tx)]
    /\ ct_log = {}
    /\ ct_result = "none"

\* The call returns as soon as the join is no longer pending; the futures
\* still pending are dropped with it.
ct_returned(main, st) ==
    /\ ct_result' = CASE ct_join(main, st) = "failed" -> "Err"
                      [] ct_join(main, st) = "ok" -> "Ok"
                      [] OTHER -> "none"
    /\ ct_join(main, st) = "failed" => ct_todo' = [i \in 1..Len(ct_todo) |-> {}]

\* Mutant: the buffer is published once the async tree has been walked.
publish_polled_after_walk(main, st) ==
    main = "pending" /\ \A i \in 1..Len(st) : st[i] \in {"ok", "none"}

\* try_join! polls the arm that publishes the buffer while it is pending,
\* whatever the state of the arm that walks the async tree.
publish_polled(main, st) == main = "pending"

\* self.transmit(subject, buf.freeze()) succeeds.
CtTransmit ==
    /\ ct_result = "none" /\ publish_polled(ct_main, ct_st)
    /\ ct_main' = "ok"
    /\ ct_log' = ct_log \cup {CtPrimary(ct_subject, ct_vals)}
    /\ ct_returned("ok", ct_st)
    /\ UNCHANGED <<ct_api, ct_subject, ct_vals, ct_st, ct_todo>>
    /\ UNCHANGED notCompoundVars

\* self.transmit(subject, buf.freeze()) fails.
CtTransmitFails ==
    /\ ct_result = "none" /\ publish_polled(ct_main, ct_st)
    /\ ct_main' = "failed"
    /\ ct_returned("failed", ct_st)
    /\ UNCHANGED <<ct_api, ct_subject, ct_vals, ct_st, ct_log>>
    /\ UNCHANGED notCompoundVars

\* A publish of a nested transmit_async succeeds; the call completes with
\* its last one.
CtTransmitNested ==
    /\ ct_result = "none"
    /\ \E i \in 1..Len(ct_todo) : \E p \in ct_todo[i] :
          /\ ct_todo' = [ct_todo EXCEPT ![i] = @ \ {p}]
          /\ ct_st' = [ct_st EXCEPT ![i] = IF ct_todo[i] = {p} THEN "ok" ELSE @]
          /\ ct_log' = ct_log \cup {p}
          /\ ct_result' =
               CASE ct_join(ct_main,
                            [ct_st EXCEPT ![i] = IF ct_todo[i] = {p} THEN "ok" ELSE @])
                      = "ok" -> "Ok"
                 [] OTHER -> "none"
    /\ UNCHANGED <<ct_api, ct_subject, ct_vals, ct_main>>
    /\ UNCHANGED notCompoundVars

\* A publish of a nested transmit_async fails, and the call with it.
CtNestedFails ==
    /\ ct_result = "none"
    /\ \E i \in 1..Len(ct_todo) :
          /\ ct_todo[i] # {}
          /\ ct_st' = [ct_st EXCEPT ![i] = "failed"]
          /\ ct_returned(ct_main, [ct_st EXCEPT ![i] = "failed"])
          /\ ct_join(ct_main, [ct_st EXCEPT ![i] = "failed"]) # "failed" =>
                ct_todo' = [ct_todo EXCEPT ![i] = {}]
    /\ UNCHANGED <<ct_api, ct_subject, ct_vals, ct_main, ct_log>>
    /\ UNCHANGED notCompoundVars

CompoundNext ==
    \/ CtTransmit
    \/ CtTransmitFails
    \/ CtTransmitNested
    \/ CtNestedFails

SpecCompound == CompoundInit /\ [][CompoundNext]_vars

\* The transport completes the publish of the buffer, one way or the other,
\* whenever the call awaits it; nothing is assumed of the async tree, whose
\* futures and streams may never produce a value.
SpecCompoundLive ==
    CompoundInit /\ [][CompoundNext]_vars /\ WF_vars(CtTransmit \/ CtTransmitFails)

\* Every publish the call has to make.
CtPublishes ==
    (IF ct_api = "transmit_async" THEN {} ELSE {CtPrimary(ct_subject, ct_vals)})
    \cup (IF encode(VTuple(ct_vals)).tx = NONE THEN {}
          ELSE transmit_async(ct_subject, encode(VTuple(ct_vals)).tx))

CtFailed == ct_main = "failed" \/ \E i \in 1..Len(ct_st) : ct_st[i] = "failed"

\* C21: transmit_async on a list, record or tuple node, transmit_static and
\* transmit_tuple_dynamic return an error as soon as the publish of the
\* buffer or a nested transmit_async fails, and return Ok only when the
\* publish of the buffer and every nested transmission have succeeded:
\* every publish of the transmission has then been made.
C21_FailurePropagates ==
    ct_api # "none" =>
        /\ CtFailed <=> ct_result = "Err"
        /\ ct_result = "Ok" =>
              /\ ct_main \in {"ok", "none"}
              /\ \A i \in 1..Len(ct_st) : ct_st[i] \in {"ok", "none"}
              /\ ct_log = CtPublishes
        /\ ct_log \subseteq CtPublishes

\* transmit_tuple_dynamic has published the buffer and every frame of the
\* stream element, and has failed on a publish of a future element.
C21_Witness ==
    /\ ct_api = "transmit_tuple_dynamic" /\ ct_result = "Err"
    /\ ct_main = "ok"
    /\ \E i, j \in 1..Len(ct_st) : ct_st[i] = "ok" /\ ct_st[j] = "failed"

\* transmit_static has returned Ok after six publishes.
C21_WitnessOk ==
    /\ ct_api = "transmit_static" /\ ct_result = "Ok"
    /\ Cardinality(ct_log) = 6

\* C34: transmit_static and transmit_tuple_dynamic publish the buffer
\* concurrently with the walk of the async tree: the publish is made even if
\* no future or stream of the tree ever produces a value to publish, and the
\* call returns Ok only after the publish and the whole walk have completed.
C34_PrimaryConcurrent ==
    /\ [](ct_result = "Ok" =>
            /\ ct_main \in {"ok", "none"}
            /\ CtPublishes \subseteq ct_log)
    /\ <>(ct_main # "pending" \/ ct_result # "none")

\* transmit_static has published the buffer and nothing else, and awaits
\* the walk of the async tree.
C34_Witness ==
    /\ ct_api = "transmit_static" /\ ct_result = "none"
    /\ ct_main = "ok" /\ ct_log = {CtPrimary(ct_subject, ct_vals)}
    /\ ct_st = <<"pending">> /\ Cardinality(ct_todo[1]) >= 3

(***************************************************************************)
(* SpecSubscribe: one call of Subscriber::subscribe_async over a transport *)
(* whose subscribe may fail.  Every branch of the plan joins its parts     *)
(* with try_join! or try_join_all, so the transport subscribes of one plan *)
(* are all pending together; the join returns the first error in the poll  *)
(* that meets it and drops the outputs it holds and the futures pending.   *)
(***************************************************************************)
\* Result<Option<AsyncSubscription>, SubscribeError>.
PlanOk(sub) == [k |-> "Ok", sub |-> sub]
PlanErr(subject) == [k |-> "Err", subject |-> subject]

\* Mutant: the subscriptions installed outlive the failed join.
drop_installed_kept(live) == live

\* The failed join drops the subscriptions its completed futures returned.
drop_installed(live) == {}

SubscribeInit ==
    /\ OthersIdle("subscribe")
    /\ sp_ty \in Types
    /\ sp_pending = subscribe_async(Root, sp_ty).calls
    /\ sp_live = {} /\ sp_installed = {} /\ sp_failed = {}
    /\ sp_result = UNSET

\* The plan needs no subscription: Ok(None) at once.
SpNothing ==
    /\ sp_result = UNSET /\ subscribe_async(Root, sp_ty).calls = {}
    /\ sp_result' = PlanOk(subscribe_async(Root, sp_ty).sub)
    /\ UNCHANGED <<sp_ty, sp_pending, sp_live, sp_installed, sp_failed>>
    /\ UNCHANGED notSubscribeVars

\* self.subscribe(subject) succeeds; with the last one the joins complete
\* and the tree is returned.
SpInstalled ==
    /\ sp_result = UNSET
    /\ \E s \in sp_pending :
          /\ sp_pending' = sp_pending \ {s}
          /\ sp_live' = sp_live \cup {s}
          /\ sp_installed' = sp_installed \cup {s}
          /\ sp_result' = IF sp_pending = {s}
                          THEN PlanOk(subscribe_async(Root, sp_ty).sub)
                          ELSE UNSET
    /\ UNCHANGED <<sp_ty, sp_failed>>
    /\ UNCHANGED notSubscribeVars

\* self.subscribe(subject) fails: every enclosing join returns the error.
SpFails ==
    /\ sp_result = UNSET
    /\ \E s \in sp_pending :
          /\ sp_failed' = sp_failed \cup {s}
          /\ sp_result' = PlanErr(s)
    /\ sp_pending' = {}
    /\ sp_live' = drop_installed(sp_live)
    /\ UNCHANGED <<sp_ty, sp_installed>>
    /\ UNCHANGED notSubscribeVars

SubscribeNext ==
    \/ SpNothing
    \/ SpInstalled
    \/ SpFails

SpecSubscribe == SubscribeInit /\ [][SubscribeNext]_vars

\* C22: when one transport subscribe fails while subscribe_async plans the
\* tree of a type, the call returns that error and no tree, and no
\* subscription installed for the plan stays alive; the call returns a tree
\* only when no subscribe has failed, and every subscription of its plan is
\* then alive.
C22_SubscribeFailure ==
    sp_ty # NONE =>
        /\ sp_failed # {} <=> sp_result.k = "Err"
        /\ sp_result.k = "Err" =>
              /\ sp_failed = {sp_result.subject}
              /\ sp_live = {} /\ sp_pending = {}
        /\ sp_result.k = "Ok" =>
              /\ sp_result.sub = subscribe_async(Root, sp_ty).sub
              /\ sp_live = subscribe_async(Root, sp_ty).calls
        /\ sp_result = UNSET => sp_live = sp_installed

\* Two subscriptions of the plan were installed when a third subscribe
\* failed; none is alive.
C22_Witness ==
    /\ sp_result.k = "Err"
    /\ Cardinality(sp_installed) = 2
    /\ sp_live = {}

\* The bytes handed to the decoder of SpecCodec, and those of them it has not
\* taken from the byte stream yet.
AllBytes == IF cenc = UNSET THEN <<>> ELSE cenc.buf \o cextra
Unread == ChunkBytes(c_rx) \o cLeft

\* The decoder's result when all the bytes are in its initial buffer and the
\* byte stream ends at once.
Unsplit ==
    LET r == receive_value(capi, cty, AllBytes, csub)
    IN  IF r.k = "Pending" THEN RxErr("unexpected end of stream") ELSE r

\* C40: the result of decoding does not depend on how the bytes are split into
\* chunks: whatever the split, the decoder returns what it returns when all
\* the bytes are in its initial buffer, the same value or the same failure,
\* and the bytes it leaves, buffered or still in the byte stream, are the same.
C40_SplitIndependent ==
    cpc = "done" =>
        IF cout.k = "Ok"
        THEN /\ Unsplit.k = "Ok"
             /\ Unsplit.v = cout.v
             /\ Unsplit.rest = cout.rest \o Unread
        ELSE cout = Unsplit

(***************************************************************************)
(* SpecEcho: one call of invoke_static whose parameter is a stream and     *)
(* whose result is a stream that echoes it, as the echo-stream client      *)
(* makes it.  The transmission of the stream's frames is the future tx     *)
(* that the call hands back: the transport may run it while the call       *)
(* races, the caller drives it afterwards, next to the loops that read the *)
(* results.  The callee echoes frame k once it has received frame k.       *)
(***************************************************************************)
\* The items the parameter stream may yield.
EchoItems == {VU32(1), VU32(2)}

\* The frames a stream of n items is transmitted in: one per item and the end.
FrameCount(its) == Len(its) + 1

EchoInit ==
    /\ OthersIdle("echo")
    /\ ec_items \in ItemSeqs(EchoItems, MaxItems)
    /\ ec_pc = "racing"
    /\ ec_res = FALSE
    /\ ec_tx = 0 /\ ec_echo = 0
    /\ ec_read = <<>> /\ ec_end = FALSE

\* The callee publishes the primary result payload: the header of a pending
\* stream.
EcPublishResult ==
    /\ ec_pc = "racing" /\ ~ec_res
    /\ ec_res' = TRUE
    /\ UNCHANGED <<ec_items, ec_pc, ec_tx, ec_echo, ec_read, ec_end>>
    /\ UNCHANGED notEchoVars

\* Mutant: the results arm awaits the transmission before it returns.
returned_tx_awaited(tx, n) == n

\* return Ok((results, tx)): the transmission is handed back as it is.
returned_tx(tx, n) == tx

\* select!, the results arm: the results are decoded and returned with tx.
EcResultsArm ==
    /\ ec_pc = "racing" /\ ec_res
    /\ ec_pc' = "returned"
    /\ ec_tx' = returned_tx(ec_tx, FrameCount(ec_items))
    /\ UNCHANGED <<ec_items, ec_res, ec_echo, ec_read, ec_end>>
    /\ UNCHANGED notEchoVars

\* select!, the error arm or the tx_fail arm: the call bails and tx is dropped.
EcCallFails ==
    /\ ec_pc = "racing"
    /\ ec_pc' = "failed"
    /\ UNCHANGED <<ec_items, ec_res, ec_tx, ec_echo, ec_read, ec_end>>
    /\ UNCHANGED notEchoVars

\* The transport runs the transmission while the call races.
EcTransmit ==
    /\ ec_pc = "racing" /\ ec_tx < FrameCount(ec_items)
    /\ ec_tx' = ec_tx + 1
    /\ UNCHANGED <<ec_items, ec_pc, ec_res, ec_echo, ec_read, ec_end>>
    /\ UNCHANGED notEchoVars

\* io.await in the caller's try_join!: the caller drives the transmission.
EcDriveIo ==
    /\ ec_pc = "returned" /\ ec_tx < FrameCount(ec_items)
    /\ ec_tx' = ec_tx + 1
    /\ UNCHANGED <<ec_items, ec_pc, ec_res, ec_echo, ec_read, ec_end>>
    /\ UNCHANGED notEchoVars

\* The callee echoes the next frame it has received.
EcEcho ==
    /\ ec_res /\ ec_echo < ec_tx
    /\ ec_echo' = ec_echo + 1
    /\ UNCHANGED <<ec_items, ec_pc, ec_res, ec_tx, ec_read, ec_end>>
    /\ UNCHANGED notEchoVars

\* numbers.next().await in the caller's try_join!: the next item of the
\* result stream, or its end.
EcConsume ==
    /\ ec_pc = "returned" /\ ~ec_end
    /\ Len(ec_read) < ec_echo
    /\ IF Len(ec_read) < Len(ec_items)
       THEN ec_read' = Append(ec_read, ec_items[Len(ec_read) + 1]) /\ UNCHANGED ec_end
       ELSE ec_end' = TRUE /\ UNCHANGED ec_read
    /\ UNCHANGED <<ec_items, ec_pc, ec_res, ec_tx, ec_echo>>
    /\ UNCHANGED notEchoVars

EchoNext ==
    \/ EcPublishResult
    \/ EcResultsArm
    \/ EcCallFails
    \/ EcTransmit
    \/ EcDriveIo
    \/ EcEcho
    \/ EcConsume

SpecEcho == EchoInit /\ [][EchoNext]_vars

\* The caller's try_join! polls io and the reading loops, and the callee
\* keeps echoing.
SpecEchoLive ==
    /\ EchoInit /\ [][EchoNext]_vars
    /\ WF_vars(EcDriveIo) /\ WF_vars(EcEcho) /\ WF_vars(EcConsume)

\* C39: on the results arm the call returns the results with the transmission
\* as it stands, without awaiting it, so the results are read while the
\* parameters' frames are still being transmitted; once the caller drives the
\* transmission and reads the result stream concurrently, the echo of the
\* parameter stream is read to its end.
C39_ResultsWithRunningTx ==
    /\ [][(ec_pc = "racing" /\ ec_pc' = "returned") => ec_tx' = ec_tx]_vars
    /\ [](ec_read = SubSeq(ec_items, 1, Len(ec_read)) /\ Len(ec_read) <= ec_tx)
    /\ (ec_pc = "returned") ~> (ec_end /\ ec_read = ec_items)

\* The call has returned, the caller has read the first echoed item and two
\* frames of the parameter stream are still to be transmitted.
C39_Witness ==
    /\ ec_pc = "returned" /\ Len(ec_items) = 2
    /\ ec_read = <<ec_items[1]>> /\ ec_tx = 1 /\ ~ec_end

====
